---------------------------- MODULE Spec2Model ----------------------------
(***************************************************************************)
(* Model of the Trip Daddy planning client (src/App.tsx: the App component *)
(* and the fetch wrappers of services/geminiService) together with the     *)
(* responses of the routes of src/server/index.ts that the client calls.   *)
(*                                                                         *)
(* React state (useState) is one variable per state cell.  Every event     *)
(* handler runs atomically against the latest render; the continuation of  *)
(* an await and the callback of a setTimeout are separate actions that run *)
(* with the values their closure captured when the handler started.        *)
(* A nullable cell holds Null (the empty tuple) or Some(v) (a 1-tuple).     *)
(* A keyed map (followUpAnswers) is a set of [id, answer] entries with at   *)
(* most one entry per id, and so is the image cache (dayImages).            *)
(*                                                                         *)
(* The server (src/server/index.ts) is its store of session resources (db) *)
(* and the payment provider's checkout sessions; a route runs atomically.  *)
(* Spec and SpecSwipe see the server only through the responses of its     *)
(* routes; SpecResume runs the routes against the store.                   *)
(***************************************************************************)
EXTENDS Integers, Sequences, FiniteSets, Bags, TLC

(* ------------------------------ bounds -------------------------------- *)
\* total number of alternative-activity calls issued in one behaviour
MaxRegens == 2
\* total number of generate-trip calls issued in one behaviour: once that
\* many were issued the user starts no further planning round
MaxGenerations == 2

(* --------------------------- program constants ------------------------ *)
threshold == 100
SwipeOutOffset == 500
MaskDays == 2

Null == <<>>
Some(v) == <<v>>
Val(o) == o[1]

Periods == {"morning", "afternoon", "evening"}

Act(n) == [name |-> n]

\* plans the generation service can produce (full, unmasked)
PlanA ==
  [destination |-> "Paris",
   days |-> << [dayNumber |-> 1, morning |-> <<Act("a1"), Act("a2")>>,
                afternoon |-> <<>>, evening |-> <<>>],
               [dayNumber |-> 2, morning |-> <<Act("a4")>>,
                afternoon |-> <<>>, evening |-> <<>>],
               [dayNumber |-> 3, morning |-> <<Act("a6")>>,
                afternoon |-> <<>>, evening |-> <<>>] >>]
PlanB ==
  [destination |-> "Paris",
   days |-> << [dayNumber |-> 1, morning |-> <<Act("a5")>>,
                afternoon |-> <<>>, evening |-> <<Act("a3")>>] >>]
FullPlans == {PlanA, PlanB}
\* a one-day plan with three morning activities, stored by another client
PlanC ==
  [destination |-> "Paris",
   days |-> << [dayNumber |-> 1,
                morning |-> <<Act("c1"), Act("c2"), Act("c3")>>,
                afternoon |-> <<>>, evening |-> <<Act("c4")>>] >>]

\* question sets the question service can return
QuestionSets == { <<>>, <<"q1">>, <<"q1", "q2">>, <<"q3", "q1">> }

\* what the user can type / pick in the wizard
Destinations == {"Paris"}
DateRanges == { <<"2026-01-01", "2026-01-03">> }
Ages == {"30"}
TripTypes == {"Solo", "Couple", "Friends", "Family"}
Genders == {"Male", "Female"}
KidsAgeRanges == {"5-10"}
\* pointer x coordinates of gesture starts and of pointer moves
StartXs == {0, 10}
ClientXs == {-101, -100, -91, 0, 100, 101, 110, 111}

\* ids crypto.randomUUID() can give to the resources of the store, and ids of
\* the payment provider's checkout sessions
Uuids == {"1", "2"}
SessionIds == {"cs1"}
\* day numbers for which some client saves a generated image
SaveDays == {1}
\* the image generated for a day of a resource
Img(id, dayNumber) == <<id, dayNumber>>
\* the query string of the page: each parameter is absent (Null) or has a
\* value, possibly the empty string
EntryParams ==
  [id : {Null, Some(""), Some("1"), Some("2")},
   success : {Null, Some("true"), Some("false")},
   session_id : {Null, Some(""), Some("cs1")},
   canceled : {Null, Some("true")}]
NoParams ==
  [id |-> Null, success |-> Null, session_id |-> Null, canceled |-> Null]
\* the query string of a shared link to resource "1"
SharedLinkParams ==
  [id |-> Some("1"), success |-> Null, session_id |-> Null, canceled |-> Null]
\* how a request of the client ends: the route ran and its response arrived,
\* the route failed with status 500, or fetch threw
Transport == {"delivered", "server_error", "throw"}

VARIABLES
  step, isValidating, prefs, smartQuestions,
  itinerary, itineraryId, isUnlocked, totalDays,
  regeneratingIds, regenModalOpen, regenTarget,
  currentQuestionIndex, dragStart, dragDelta, isAnimatingOut,
  validateCall, questionsCall, genCall, regenCalls, swipeTimer,
  regenCount, genCount, committed, lastRelease, lastOutcome,
  params, mounted, verifyCall, getCall,
  dayImages, imageTasks,
  db, stripeSessions, paidVerified,
  isLoadingPayment, payCall, locationHref, lastCheckout

wizardVars == <<isValidating, validateCall, questionsCall>>
swipeVars == <<smartQuestions, currentQuestionIndex, dragStart, dragDelta,
               isAnimatingOut, swipeTimer, committed, lastRelease>>
sessionVars == <<itinerary, itineraryId, isUnlocked, totalDays>>
regenVars == <<regeneratingIds, regenModalOpen, regenTarget, regenCalls,
               regenCount, lastOutcome>>
\* entry parameters (window.location.search), whether the mount effect has
\* run, and its pending verify-payment / itinerary-by-id calls
mountVars == <<params, mounted, verifyCall, getCall>>
\* the image cache and the pending image tasks of loadImages
imageVars == <<dayImages, imageTasks>>
\* the server's store, the payment provider's sessions, and the ids for which
\* a paid session referring to that id has been presented for verification
serverVars == <<db, stripeSessions, paidVerified>>
\* the payment-in-progress flag, the pending createCheckoutSession call, and
\* the address the page has navigated to (Null while the page is still shown);
\* lastCheckout is history: how the last checkout request ended
payVars == <<isLoadingPayment, payCall, locationHref, lastCheckout>>
vars == <<step, prefs, wizardVars, swipeVars, sessionVars, regenVars,
          genCall, genCount, mountVars, imageVars, serverVars, payVars>>

(* ---------------------------- initial state --------------------------- *)
InitialPrefs ==
  [destination |-> "", startDate |-> "", endDate |-> "",
   tripType |-> "Couple",
   demographics |-> [gender |-> "", age |-> "", kidsAgeRange |-> ""],
   followUpAnswers |-> {}]

\* the useState cells of App and the bookkeeping of its pending work
InitApp ==
  /\ step = "START"
  /\ isValidating = FALSE
  /\ prefs = InitialPrefs
  /\ smartQuestions = <<>>
  /\ itinerary = Null
  /\ itineraryId = Null
  /\ isUnlocked = FALSE
  /\ totalDays = 0
  /\ regeneratingIds = {}
  /\ regenModalOpen = FALSE
  /\ regenTarget = Null
  /\ currentQuestionIndex = 0
  /\ dragStart = Null
  /\ dragDelta = [x |-> 0]
  /\ isAnimatingOut = Null
  /\ validateCall = Null
  /\ questionsCall = Null
  /\ genCall = Null
  /\ regenCalls = EmptyBag
  /\ regenCount = 0
  /\ swipeTimer = Null
  /\ genCount = 0
  /\ committed = <<>>
  /\ lastRelease = Null
  /\ lastOutcome = "none"
  /\ params = NoParams
  /\ verifyCall = Null
  /\ getCall = Null
  /\ dayImages = {}
  /\ imageTasks = {}
  /\ isLoadingPayment = FALSE
  /\ payCall = Null
  /\ locationHref = Null
  /\ lastCheckout = "none"

\* an empty store and no checkout session
InitServer ==
  /\ db = [id \in Uuids |-> Null]
  /\ stripeSessions = [sid \in SessionIds |-> Null]
  /\ paidVerified = {}

\* the page opened without entry parameters: the mount effect has run and
\* has done nothing
Init ==
  /\ InitApp
  /\ InitServer
  /\ mounted = TRUE

\* the page as constructed, before the mount effect reads the query string
InitResume ==
  /\ InitApp
  /\ InitServer
  /\ mounted = FALSE

(* ------------------------------- wizard ------------------------------- *)
setDestination(d) ==
  /\ step = "START"
  /\ prefs' = [prefs EXCEPT !.destination = d]
  /\ UNCHANGED <<step, wizardVars, swipeVars, sessionVars, regenVars,
                 genCall, genCount>>
  /\ UNCHANGED <<mountVars, imageVars, serverVars, payVars>>

setDates(s, e) ==
  /\ step = "START"
  /\ prefs' = [prefs EXCEPT !.startDate = s, !.endDate = e]
  /\ UNCHANGED <<step, wizardVars, swipeVars, sessionVars, regenVars,
                 genCall, genCount>>
  /\ UNCHANGED <<mountVars, imageVars, serverVars, payVars>>

setAge(a) ==
  /\ step = "PREFERENCES"
  /\ prefs.tripType \in {"Solo", "Couple", "Friends"}
  /\ prefs' = [prefs EXCEPT !.demographics.age = a]
  /\ UNCHANGED <<step, wizardVars, swipeVars, sessionVars, regenVars,
                 genCall, genCount>>
  /\ UNCHANGED <<mountVars, imageVars, serverVars, payVars>>

\* the trip type cards: choosing a type empties the demographics
setTripType(t) ==
  /\ step = "PREFERENCES"
  /\ prefs' = [prefs EXCEPT !.tripType = t,
                            !.demographics = [gender |-> "", age |-> "",
                                              kidsAgeRange |-> ""]]
  /\ UNCHANGED <<step, wizardVars, swipeVars, sessionVars, regenVars,
                 genCall, genCount>>
  /\ UNCHANGED <<mountVars, imageVars, serverVars, payVars>>

\* the gender cards, rendered for Solo
setGender(g) ==
  /\ step = "PREFERENCES"
  /\ prefs.tripType = "Solo"
  /\ prefs' = [prefs EXCEPT !.demographics.gender = g]
  /\ UNCHANGED <<step, wizardVars, swipeVars, sessionVars, regenVars,
                 genCall, genCount>>
  /\ UNCHANGED <<mountVars, imageVars, serverVars, payVars>>

\* the kids age range buttons, rendered for Family
setKidsAgeRange(r) ==
  /\ step = "PREFERENCES"
  /\ prefs.tripType = "Family"
  /\ prefs' = [prefs EXCEPT !.demographics.kidsAgeRange = r]
  /\ UNCHANGED <<step, wizardVars, swipeVars, sessionVars, regenVars,
                 genCall, genCount>>
  /\ UNCHANGED <<mountVars, imageVars, serverVars, payVars>>

\* responses of POST /api/validate-destination as the fetch wrapper sees them:
\* the service's verdict, the route's error body (status 500), or fetch throws
ValidationResponses ==
  { [kind |-> "ok", isValid |-> TRUE, formattedName |-> "Paris"],
    [kind |-> "ok", isValid |-> FALSE, formattedName |-> ""],
    [kind |-> "error", error |-> "Validation failed"],
    [kind |-> "throw"] }

\* the fetch wrapper: the parsed body whatever the status (the error body has
\* no isValid and no formattedName, both falsy), or the optimistic verdict
\* when fetch throws
validateDestination(resp, destination) ==
  CASE resp.kind = "throw" ->
         [isValid |-> TRUE, formattedName |-> destination]
    [] resp.kind = "error" -> [isValid |-> FALSE, formattedName |-> ""]
    [] resp.kind = "ok" ->
         [isValid |-> resp.isValid, formattedName |-> resp.formattedName]

handleStartSubmit ==
  /\ step = "START"
  /\ ~isValidating
  /\ genCount < MaxGenerations
  /\ prefs.destination # "" /\ prefs.startDate # "" /\ prefs.endDate # ""
  /\ isValidating' = TRUE
  /\ validateCall' = Some([destination |-> prefs.destination])
  /\ UNCHANGED <<step, prefs, questionsCall, swipeVars, sessionVars,
                 regenVars, genCall, genCount>>
  /\ UNCHANGED <<mountVars, imageVars, serverVars, payVars>>

\* faulty variant of handleStartSubmitResolve that goes on whatever the
\* verdict (used to show that C21 depends on the isValid test)
handleStartSubmitResolveIgnoresVerdict(resp) ==
  /\ validateCall # Null
  /\ LET result == validateDestination(resp, Val(validateCall).destination)
     IN /\ prefs' = IF result.formattedName # ""
                    THEN [prefs EXCEPT !.destination = result.formattedName]
                    ELSE prefs
        /\ step' = "PREFERENCES"
  /\ isValidating' = FALSE
  /\ validateCall' = Null
  /\ UNCHANGED <<questionsCall, swipeVars, sessionVars, regenVars,
                 genCall, genCount>>
  /\ UNCHANGED <<mountVars, imageVars, serverVars, payVars>>

handleStartSubmitResolve(resp) ==
  /\ validateCall # Null
  /\ LET result == validateDestination(resp, Val(validateCall).destination)
     IN IF ~result.isValid
        THEN UNCHANGED <<step, prefs>>
        ELSE /\ prefs' = IF result.formattedName # ""
                         THEN [prefs EXCEPT !.destination = result.formattedName]
                         ELSE prefs
             /\ step' = "PREFERENCES"
  /\ isValidating' = FALSE
  /\ validateCall' = Null
  /\ UNCHANGED <<questionsCall, swipeVars, sessionVars, regenVars,
                 genCall, genCount>>
  /\ UNCHANGED <<mountVars, imageVars, serverVars, payVars>>

backToStart ==
  /\ step = "PREFERENCES"
  /\ step' = "START"
  /\ UNCHANGED <<prefs, wizardVars, swipeVars, sessionVars, regenVars,
                 genCall, genCount>>
  /\ UNCHANGED <<mountVars, imageVars, serverVars, payVars>>

\* faulty variant of handlePreferencesSubmit without the Family test (used to
\* show that C23 depends on it)
handlePreferencesSubmitNoFamilyTest ==
  /\ step = "PREFERENCES"
  /\ ~(prefs.tripType = "Solo"
       /\ (prefs.demographics.gender = "" \/ prefs.demographics.age = ""))
  /\ ~(prefs.tripType \in {"Couple", "Friends"} /\ prefs.demographics.age = "")
  /\ step' = "SPECIFICS"
  /\ UNCHANGED <<prefs, wizardVars, swipeVars, sessionVars, regenVars,
                 genCall, genCount>>
  /\ UNCHANGED <<mountVars, imageVars, serverVars, payVars>>

handlePreferencesSubmit ==
  /\ step = "PREFERENCES"
  /\ ~(prefs.tripType = "Solo"
       /\ (prefs.demographics.gender = "" \/ prefs.demographics.age = ""))
  /\ ~(prefs.tripType \in {"Couple", "Friends"} /\ prefs.demographics.age = "")
  /\ ~(prefs.tripType = "Family" /\ prefs.demographics.kidsAgeRange = "")
  /\ step' = "SPECIFICS"
  /\ UNCHANGED <<prefs, wizardVars, swipeVars, sessionVars, regenVars,
                 genCall, genCount>>
  /\ UNCHANGED <<mountVars, imageVars, serverVars, payVars>>

backToPreferences ==
  /\ step = "SPECIFICS"
  /\ step' = "PREFERENCES"
  /\ UNCHANGED <<prefs, wizardVars, swipeVars, sessionVars, regenVars,
                 genCall, genCount>>
  /\ UNCHANGED <<mountVars, imageVars, serverVars, payVars>>

handleSpecificsSubmit ==
  /\ step = "SPECIFICS"
  /\ step' = "LOADING"
  /\ questionsCall' = Some([prefs |-> prefs])
  /\ UNCHANGED <<prefs, isValidating, validateCall, swipeVars, sessionVars,
                 regenVars, genCall, genCount>>
  /\ UNCHANGED <<mountVars, imageVars, serverVars, payVars>>

(* ------------------- question set and generation ---------------------- *)
\* POST /api/check-events as the fetch wrapper sees it: the route answers with
\* the service's list (empty when the service failed) or with its error body
\* (status 500), or the fetch throws
CheckEventsResponses ==
  { [kind |-> "ok", questions |-> qs] : qs \in QuestionSets } \cup
  { [kind |-> "error", error |-> "Check events failed"], [kind |-> "throw"] }
NoQuestionsResponses ==
  { r \in CheckEventsResponses : r.kind # "ok" \/ r.questions = <<>> }

\* faulty variant of checkEventsAndGetQuestions that answers a failed request
\* with a stock question (used to show that C24 depends on the empty list)
checkEventsAndGetQuestionsStock(resp) ==
  IF resp.kind = "ok" THEN resp.questions ELSE <<"q1">>

\* the fetch wrapper: the parsed body whatever the status (the error body is
\* an object without length, here the empty list), [] when fetch throws
checkEventsAndGetQuestions(resp) ==
  IF resp.kind = "ok" THEN resp.questions ELSE <<>>

\* faulty variant of maskPlan that keeps three days (used to show that C11
\* depends on the number of days kept)
maskPlanThree(plan) ==
  [plan EXCEPT !.days = SubSeq(plan.days, 1,
                               IF Len(plan.days) < 3
                               THEN Len(plan.days) ELSE 3)]

maskPlan(plan) ==
  [plan EXCEPT !.days = SubSeq(plan.days, 1,
                               IF Len(plan.days) < MaskDays
                               THEN Len(plan.days) ELSE MaskDays)]

\* the body POST /api/generate-trip answers with for a new resource
GenerateTripBody(fullPlan, id) ==
  [kind |-> "ok", id |-> id, plan |-> maskPlan(fullPlan), unlocked |-> FALSE,
   totalDays |-> Len(fullPlan.days), images |-> {}]

\* POST /api/generate-trip as the fetch wrapper sees it, for the n-th resource
GenerateTripResponses(n) ==
  { GenerateTripBody(fullPlan, ToString(n)) : fullPlan \in FullPlans } \cup
  { [kind |-> "error", error |-> "Generation failed"], [kind |-> "throw"] }

\* the fetch wrapper: the parsed body (whatever the status), null when fetch throws
generateItinerary(resp) ==
  IF resp.kind = "throw" THEN Null ELSE Some(resp)

\* generateTrip up to its await: the call carries the prefs of the closure
generateTrip(closurePrefs) ==
  /\ genCall' = Some([prefs |-> closurePrefs])
  /\ genCount' = genCount + 1

\* faulty variant of handleSpecificsSubmitResolve that keeps the index of the
\* previous traversal (used to show that C33 depends on the reset to zero)
handleSpecificsSubmitResolveKeepsIndex(resp) ==
  /\ questionsCall # Null
  /\ questionsCall' = Null
  /\ LET questions == checkEventsAndGetQuestions(resp)
     IN IF Len(questions) > 0
        THEN /\ smartQuestions' = questions
             /\ step' = "QUESTIONS"
             /\ committed' = <<>>
             /\ UNCHANGED <<currentQuestionIndex, genCall, genCount>>
        ELSE /\ generateTrip(Val(questionsCall).prefs)
             /\ UNCHANGED <<step, smartQuestions, currentQuestionIndex,
                            committed>>
  /\ UNCHANGED <<prefs, isValidating, validateCall, dragStart, dragDelta,
                 isAnimatingOut, swipeTimer, lastRelease, sessionVars,
                 regenVars>>
  /\ UNCHANGED <<mountVars, imageVars, serverVars, payVars>>

handleSpecificsSubmitResolve(resp) ==
  /\ questionsCall # Null
  /\ questionsCall' = Null
  /\ LET questions == checkEventsAndGetQuestions(resp)
     IN IF Len(questions) > 0
        THEN /\ smartQuestions' = questions
             /\ currentQuestionIndex' = 0
             /\ step' = "QUESTIONS"
             /\ committed' = <<>>
             /\ UNCHANGED <<genCall, genCount>>
        ELSE /\ generateTrip(Val(questionsCall).prefs)
             /\ UNCHANGED <<step, smartQuestions, currentQuestionIndex,
                            committed>>
  /\ UNCHANGED <<prefs, isValidating, validateCall, dragStart, dragDelta,
                 isAnimatingOut, swipeTimer, lastRelease, sessionVars,
                 regenVars>>
  /\ UNCHANGED <<mountVars, imageVars, serverVars, payVars>>

\* faulty variant of putImage that keeps only the new entry (used to show that
\* C27 depends on the spread of the previous cache)
putImageAlone(images, dayNumber, image) ==
  { [dayNumber |-> dayNumber, image |-> image] }

\* the image cache as a keyed map: at most one entry per day number
putImage(images, dayNumber, image) ==
  { e \in images : e.dayNumber # dayNumber } \cup
  { [dayNumber |-> dayNumber, image |-> image] }

\* faulty variant of loadImages that starts a task for every day (used to show
\* that C26 depends on the test of existingImages)
loadImagesEveryDay(days, existingImages, id) ==
  /\ dayImages' = existingImages
  /\ imageTasks' = imageTasks \cup
       { [id |-> id, dayNumber |-> days[i].dayNumber] : i \in 1..Len(days) }

\* loadImages up to the awaits of its tasks: the cache becomes the existing
\* images and one task is started for every day without an existing image
loadImages(days, existingImages, id) ==
  /\ dayImages' = existingImages
  /\ imageTasks' = imageTasks \cup
       { [id |-> id, dayNumber |-> days[i].dayNumber] :
           i \in { j \in 1..Len(days) :
                     \A e \in existingImages :
                        e.dayNumber # days[j].dayNumber } }

\* faulty variant of generateTripResolve that stays in Loading when no plan
\* came back (used to show that C25 depends on the return to Start)
generateTripResolveStaysLoading(resp) ==
  /\ genCall # Null
  /\ genCall' = Null
  /\ LET result == generateItinerary(resp)
     IN IF result # Null /\ Val(result).kind = "ok"
        THEN /\ itinerary' = Some(Val(result).plan)
             /\ itineraryId' = Some(Val(result).id)
             /\ isUnlocked' = Val(result).unlocked
             /\ totalDays' = Val(result).totalDays
             /\ step' = "ITINERARY"
             /\ loadImages(Val(result).plan.days, {}, Val(result).id)
        ELSE UNCHANGED <<step, sessionVars, imageVars>>
  /\ UNCHANGED <<prefs, wizardVars, swipeVars, regenVars, genCount,
                 mountVars, serverVars, payVars>>

\* generateTrip after its await
generateTripResolve(resp) ==
  /\ genCall # Null
  /\ genCall' = Null
  /\ LET result == generateItinerary(resp)
     IN IF result # Null /\ Val(result).kind = "ok"
        THEN /\ itinerary' = Some(Val(result).plan)
             /\ itineraryId' = Some(Val(result).id)
             /\ isUnlocked' = Val(result).unlocked
             /\ totalDays' = Val(result).totalDays
             /\ step' = "ITINERARY"
             /\ loadImages(Val(result).plan.days, {}, Val(result).id)
        ELSE /\ step' = "START"
             /\ UNCHANGED <<sessionVars, imageVars>>
  /\ UNCHANGED <<prefs, wizardVars, swipeVars, regenVars, genCount,
                 mountVars, serverVars, payVars>>

restart ==
  /\ step = "ITINERARY"
  /\ itinerary # Null
  /\ step' = "START"
  /\ UNCHANGED <<prefs, wizardVars, swipeVars, sessionVars, regenVars,
                 genCall, genCount>>
  /\ UNCHANGED <<mountVars, imageVars, serverVars, payVars>>

(* ------------------------ swipe / decision interpreter ----------------- *)
putAnswer(answers, id, answer) ==
  { e \in answers : e.id # id } \cup { [id |-> id, answer |-> answer] }

\* the part of handleSwipeComplete after its two early returns
commitSwipe(direction) ==
  LET currentQ == smartQuestions[currentQuestionIndex + 1]
  IN /\ isAnimatingOut' = Some(direction)
     /\ dragDelta' = [x |-> IF direction = "right" THEN SwipeOutOffset
                            ELSE -SwipeOutOffset]
     /\ prefs' = [prefs EXCEPT !.followUpAnswers =
                    putAnswer(@, currentQ, direction = "right")]
     /\ swipeTimer' = Some([currentQuestionIndex |-> currentQuestionIndex,
                            smartQuestions |-> smartQuestions,
                            prefs |-> prefs])
     /\ committed' = Append(committed, currentQ)

\* faulty variant of handleSwipeComplete without the test of the animation
\* lock (used to show that C31 depends on the early return)
handleSwipeCompleteNoLock(direction) ==
  /\ step = "QUESTIONS"
  /\ currentQuestionIndex < Len(smartQuestions)
  /\ commitSwipe(direction)
  /\ UNCHANGED <<step, wizardVars, smartQuestions, currentQuestionIndex,
                 dragStart, lastRelease, sessionVars, regenVars, genCall,
                 genCount>>
  /\ UNCHANGED <<mountVars, imageVars, serverVars, payVars>>

\* yes / no button
handleSwipeComplete(direction) ==
  /\ step = "QUESTIONS"
  /\ isAnimatingOut = Null
  /\ currentQuestionIndex < Len(smartQuestions)
  /\ commitSwipe(direction)
  /\ UNCHANGED <<step, wizardVars, smartQuestions, currentQuestionIndex,
                 dragStart, lastRelease, sessionVars, regenVars, genCall,
                 genCount>>
  /\ UNCHANGED <<mountVars, imageVars, serverVars, payVars>>

\* faulty variant of swipeTimeout that advances by two questions (used to show
\* that C9 depends on the callback's index arithmetic)
swipeTimeoutSkips ==
  /\ swipeTimer # Null
  /\ swipeTimer' = Null
  /\ isAnimatingOut' = Null
  /\ dragDelta' = [x |-> 0]
  /\ LET c == Val(swipeTimer)
         nextIndex == c.currentQuestionIndex + 2
     IN IF nextIndex >= Len(c.smartQuestions)
        THEN /\ step' = "LOADING"
             /\ generateTrip(c.prefs)
             /\ UNCHANGED currentQuestionIndex
        ELSE /\ currentQuestionIndex' = nextIndex
             /\ UNCHANGED <<step, genCall, genCount>>
  /\ UNCHANGED <<prefs, wizardVars, smartQuestions, dragStart, committed,
                 lastRelease, sessionVars, regenVars>>
  /\ UNCHANGED <<mountVars, imageVars, serverVars, payVars>>

\* the setTimeout callback of handleSwipeComplete, 300 ms after the commit
swipeTimeout ==
  /\ swipeTimer # Null
  /\ swipeTimer' = Null
  /\ isAnimatingOut' = Null
  /\ dragDelta' = [x |-> 0]
  /\ LET c == Val(swipeTimer)
         nextIndex == c.currentQuestionIndex + 1
     IN IF nextIndex >= Len(c.smartQuestions)
        THEN /\ step' = "LOADING"
             /\ generateTrip(c.prefs)
             /\ UNCHANGED currentQuestionIndex
        ELSE /\ currentQuestionIndex' = nextIndex
             /\ UNCHANGED <<step, genCall, genCount>>
  /\ UNCHANGED <<prefs, wizardVars, smartQuestions, dragStart, committed,
                 lastRelease, sessionVars, regenVars>>
  /\ UNCHANGED <<mountVars, imageVars, serverVars, payVars>>

\* dragStart also records, as history, how many answers were committed when
\* the gesture started; no handler reads that field
onPointerDown(clientX) ==
  /\ step = "QUESTIONS"
  /\ currentQuestionIndex < Len(smartQuestions)
  /\ isAnimatingOut = Null
  /\ dragStart' = Some([x |-> clientX, answered |-> Len(committed)])
  /\ UNCHANGED <<step, prefs, wizardVars, smartQuestions, currentQuestionIndex,
                 dragDelta, isAnimatingOut, swipeTimer, committed, lastRelease,
                 sessionVars, regenVars, genCall, genCount>>
  /\ UNCHANGED <<mountVars, imageVars, serverVars, payVars>>

onPointerMove(clientX) ==
  /\ step = "QUESTIONS"
  /\ currentQuestionIndex < Len(smartQuestions)
  /\ dragStart # Null /\ isAnimatingOut = Null
  /\ dragDelta' = [x |-> clientX - Val(dragStart).x]
  /\ UNCHANGED <<step, prefs, wizardVars, smartQuestions, currentQuestionIndex,
                 dragStart, isAnimatingOut, swipeTimer, committed, lastRelease,
                 sessionVars, regenVars, genCall, genCount>>
  /\ UNCHANGED <<mountVars, imageVars, serverVars, payVars>>

\* faulty variant of onPointerUp whose comparisons include the threshold (used
\* to show that C10 depends on the strict comparisons)
onPointerUpInclusive ==
  /\ step = "QUESTIONS"
  /\ currentQuestionIndex < Len(smartQuestions)
  /\ dragStart # Null /\ isAnimatingOut = Null
  /\ IF dragDelta.x >= threshold THEN commitSwipe("right")
     ELSE IF dragDelta.x <= -threshold THEN commitSwipe("left")
     ELSE /\ dragDelta' = [x |-> 0]
          /\ UNCHANGED <<isAnimatingOut, prefs, swipeTimer, committed>>
  /\ dragStart' = Null
  /\ lastRelease' = Some(dragDelta)
  /\ UNCHANGED <<step, wizardVars, smartQuestions, currentQuestionIndex,
                 sessionVars, regenVars, genCall, genCount>>
  /\ UNCHANGED <<mountVars, imageVars, serverVars, payVars>>

\* faulty variant of onPointerUp whose cancel branch keeps the delta (used to
\* show that C32 depends on the reset of the delta)
onPointerUpKeepsDelta ==
  /\ step = "QUESTIONS"
  /\ currentQuestionIndex < Len(smartQuestions)
  /\ dragStart # Null /\ isAnimatingOut = Null
  /\ IF dragDelta.x > threshold THEN commitSwipe("right")
     ELSE IF dragDelta.x < -threshold THEN commitSwipe("left")
     ELSE UNCHANGED <<dragDelta, isAnimatingOut, prefs, swipeTimer, committed>>
  /\ dragStart' = Null
  /\ lastRelease' = Some(dragDelta)
  /\ UNCHANGED <<step, wizardVars, smartQuestions, currentQuestionIndex,
                 sessionVars, regenVars, genCall, genCount>>
  /\ UNCHANGED <<mountVars, imageVars, serverVars, payVars>>

onPointerUp ==
  /\ step = "QUESTIONS"
  /\ currentQuestionIndex < Len(smartQuestions)
  /\ dragStart # Null /\ isAnimatingOut = Null
  /\ IF dragDelta.x > threshold THEN commitSwipe("right")
     ELSE IF dragDelta.x < -threshold THEN commitSwipe("left")
     ELSE /\ dragDelta' = [x |-> 0]
          /\ UNCHANGED <<isAnimatingOut, prefs, swipeTimer, committed>>
  /\ dragStart' = Null
  /\ lastRelease' = Some(dragDelta)
  /\ UNCHANGED <<step, wizardVars, smartQuestions, currentQuestionIndex,
                 sessionVars, regenVars, genCall, genCount>>
  /\ UNCHANGED <<mountVars, imageVars, serverVars, payVars>>

(* --------------------- slot regeneration / deletion -------------------- *)
\* `${dayNum}-${period}-${idx}`: dayNum and idx are non-negative integers and
\* no period name holds a dash, so the string determines the triple
SlotId(dayNum, period, idx) == <<dayNum, period, idx>>

\* faulty variant of displayDays that shows one day of a locked plan (used to
\* show that C13 depends on the slice)
displayDaysOne ==
  IF isUnlocked THEN Val(itinerary).days
  ELSE SubSeq(Val(itinerary).days, 1,
              IF Len(Val(itinerary).days) < 1 THEN Len(Val(itinerary).days)
              ELSE 1)

\* the days rendered in step ITINERARY
displayDays ==
  IF isUnlocked THEN Val(itinerary).days
  ELSE SubSeq(Val(itinerary).days, 1,
              IF Len(Val(itinerary).days) < 2 THEN Len(Val(itinerary).days)
              ELSE 2)

\* totalDays - displayDays.length
lockedDaysCount == totalDays - Len(displayDays)

\* the condition under which the locked-state overlay is rendered
unlockOverlayShown == ~isUnlocked /\ lockedDaysCount > 0

\* the (day, period, idx) of the activity cards on screen; idx is 0-based
DisplayedSlots ==
  IF step = "ITINERARY" /\ itinerary # Null
  THEN { s \in [day : { displayDays[i] : i \in 1..Len(displayDays) },
                period : Periods, idx : 0..3] : s.idx < Len(s.day[s.period]) }
  ELSE {}

\* faulty variant of ReplaceAt that takes idx as a 1-based position (used to
\* show that C2 depends on the position written)
ReplaceAtOneBased(list, idx, v) ==
  IF 1 <= idx /\ idx <= Len(list) THEN [list EXCEPT ![idx] = v] ELSE list

\* faulty variant of ReplaceAt without the newActivities[idx] test: the
\* assignment past the end appends (used to show that C5 depends on the test)
ReplaceAtUnguarded(list, idx, v) ==
  IF idx < Len(list) THEN [list EXCEPT ![idx + 1] = v] ELSE Append(list, v)

\* faulty variant of ReplaceAt that inserts v before position idx (used to
\* show that C30 depends on the write keeping every other position)
ReplaceAtInserts(list, idx, v) ==
  IF idx < Len(list)
  THEN SubSeq(list, 1, idx) \o <<v>> \o SubSeq(list, idx + 1, Len(list))
  ELSE list

\* [...list] with list[idx] = v when list[idx] exists
ReplaceAt(list, idx, v) ==
  IF idx < Len(list) THEN [list EXCEPT ![idx + 1] = v] ELSE list

\* faulty variant of SpliceOne, list.splice(idx): removes idx and all after it
\* (used to show that C6 depends on the delete count)
SpliceTail(list, idx) ==
  IF idx < Len(list) THEN SubSeq(list, 1, idx) ELSE list

\* list.splice(idx, 1)
SpliceOne(list, idx) ==
  IF idx < Len(list)
  THEN SubSeq(list, 1, idx) \o SubSeq(list, idx + 2, Len(list))
  ELSE list

\* the setItinerary updater of confirmRegeneration:
\* prev.days.map(d => d.dayNumber !== dayNum ? d : {...d, [period]: newActivities})
ReplaceActivity(prev, dayNum, period, idx, newActivity) ==
  IF prev = Null THEN Null
  ELSE Some([Val(prev) EXCEPT !.days =
         [i \in 1..Len(Val(prev).days) |->
            IF Val(prev).days[i].dayNumber # dayNum THEN Val(prev).days[i]
            ELSE [Val(prev).days[i] EXCEPT
                    ![period] = ReplaceAt(@, idx, newActivity)]]])

\* the setItinerary updater of handleDeleteActivity:
\* prev.days.map(d => d.dayNumber !== dayNum ? d : {...d, [period]: newList})
DeleteActivity(prev, dayNum, period, idx) ==
  IF prev = Null THEN Null
  ELSE Some([Val(prev) EXCEPT !.days =
         [i \in 1..Len(Val(prev).days) |->
            IF Val(prev).days[i].dayNumber # dayNum THEN Val(prev).days[i]
            ELSE [Val(prev).days[i] EXCEPT ![period] = SpliceOne(@, idx)]]])

\* POST /api/alternative-activity as the fetch wrapper sees it:
\* the route answers with the service's result (an activity, or null when the
\* service failed), or with its error body (status 500), or the fetch throws
AlternativeResponses ==
  { [kind |-> "ok", result |-> Some(Act("alt"))],
    [kind |-> "ok", result |-> Null],
    [kind |-> "error", error |-> "Alternative failed"],
    [kind |-> "throw"] }

\* the fetch wrapper: the parsed body whatever the status, null when fetch throws
getAlternativeActivity(resp) ==
  CASE resp.kind = "throw" -> Null
    [] resp.kind = "ok" -> resp.result
    [] resp.kind = "error" -> Some([error |-> resp.error])

openRegenerateModal(dayNum, period, idx, activity) ==
  /\ step = "ITINERARY"
  /\ itinerary # Null
  /\ regenTarget' = Some([dayNum |-> dayNum, period |-> period, idx |-> idx,
                          activity |-> activity])
  /\ regenModalOpen' = TRUE
  /\ UNCHANGED <<step, prefs, wizardVars, swipeVars, sessionVars,
                 regeneratingIds, regenCalls, regenCount, lastOutcome,
                 genCall, genCount>>
  /\ UNCHANGED <<mountVars, imageVars, serverVars, payVars>>

\* onClose of the RegenerateModal
closeRegenerateModal ==
  /\ step = "ITINERARY"
  /\ itinerary # Null
  /\ regenModalOpen /\ regenTarget # Null
  /\ regenModalOpen' = FALSE
  /\ UNCHANGED <<step, prefs, wizardVars, swipeVars, sessionVars,
                 regeneratingIds, regenTarget, regenCalls, regenCount,
                 lastOutcome, genCall, genCount>>
  /\ UNCHANGED <<mountVars, imageVars, serverVars, payVars>>

\* confirmRegeneration up to its await; the call remembers its closure's
\* dayNum, period, idx, id and activity, and the session it was started under
confirmRegeneration ==
  /\ step = "ITINERARY"
  /\ itinerary # Null
  /\ regenModalOpen /\ regenTarget # Null
  /\ regenCount < MaxRegens
  /\ LET t == Val(regenTarget)
         id == SlotId(t.dayNum, t.period, t.idx)
     IN /\ regeneratingIds' = regeneratingIds \cup {id}
        /\ regenCalls' = regenCalls (+)
             SetToBag({ [dayNum |-> t.dayNum, period |-> t.period,
                         idx |-> t.idx, id |-> id, activity |-> t.activity,
                         session |-> itineraryId] })
  /\ regenModalOpen' = FALSE
  /\ regenCount' = regenCount + 1
  /\ UNCHANGED <<step, prefs, wizardVars, swipeVars, sessionVars, regenTarget,
                 lastOutcome, genCall, genCount>>
  /\ UNCHANGED <<mountVars, imageVars, serverVars, payVars>>

\* which branch a completion takes: no activity returned, or the updater's
\* early return, its unmatched day, its out-of-range idx, or its write, which
\* replaces the activity the call was requested for or another one
Outcome(prev, c, newActivity) ==
  IF newActivity = Null THEN "no_result"
  ELSE IF prev = Null THEN "no_itinerary"
  ELSE LET ds == { i \in 1..Len(Val(prev).days) :
                     Val(prev).days[i].dayNumber = c.dayNum }
       IN IF ds = {} THEN "no_day"
          ELSE IF \A i \in ds : c.idx >= Len(Val(prev).days[i][c.period])
               THEN "out_of_range"
               ELSE IF \A i \in ds :
                         c.idx < Len(Val(prev).days[i][c.period])
                         => Val(prev).days[i][c.period][c.idx + 1] = c.activity
                    THEN "replaced"
                    ELSE "replaced_other"

\* faulty variant of confirmRegenerationResolve that clears the key only when
\* an activity came back, i.e. without the finally block (used to show that C4
\* depends on it)
confirmRegenerationResolveNoFinally(c, resp) ==
  /\ BagIn(c, regenCalls)
  /\ LET newActivity == getAlternativeActivity(resp)
     IN /\ itinerary' = IF newActivity # Null
                        THEN ReplaceActivity(itinerary, c.dayNum, c.period,
                                             c.idx, Val(newActivity))
                        ELSE itinerary
        /\ lastOutcome' = Outcome(itinerary, c, newActivity)
        /\ regeneratingIds' = IF newActivity # Null
                              THEN regeneratingIds \ {c.id}
                              ELSE regeneratingIds
  /\ regenTarget' = Null
  /\ regenCalls' = regenCalls (-) SetToBag({c})
  /\ UNCHANGED <<step, prefs, wizardVars, swipeVars, itineraryId, isUnlocked,
                 totalDays, regenModalOpen, regenCount, genCall, genCount>>
  /\ UNCHANGED <<mountVars, imageVars, serverVars, payVars>>

\* faulty variant of confirmRegenerationResolve that writes only when the
\* activity at idx is still the one the call was requested for (used to show
\* that C29 depends on the write by numeric index)
confirmRegenerationResolveSameActivity(c, resp) ==
  /\ BagIn(c, regenCalls)
  /\ LET newActivity == getAlternativeActivity(resp)
     IN /\ itinerary' = IF /\ newActivity # Null
                           /\ Outcome(itinerary, c, newActivity) = "replaced"
                        THEN ReplaceActivity(itinerary, c.dayNum, c.period,
                                             c.idx, Val(newActivity))
                        ELSE itinerary
        /\ lastOutcome' = Outcome(itinerary, c, newActivity)
  /\ regeneratingIds' = regeneratingIds \ {c.id}
  /\ regenTarget' = Null
  /\ regenCalls' = regenCalls (-) SetToBag({c})
  /\ UNCHANGED <<step, prefs, wizardVars, swipeVars, itineraryId, isUnlocked,
                 totalDays, regenModalOpen, regenCount, genCall, genCount>>
  /\ UNCHANGED <<mountVars, imageVars, serverVars, payVars>>

\* confirmRegeneration after its await, finally block included
confirmRegenerationResolve(c, resp) ==
  /\ BagIn(c, regenCalls)
  /\ LET newActivity == getAlternativeActivity(resp)
     IN /\ itinerary' = IF newActivity # Null
                        THEN ReplaceActivity(itinerary, c.dayNum, c.period,
                                             c.idx, Val(newActivity))
                        ELSE itinerary
        /\ lastOutcome' = Outcome(itinerary, c, newActivity)
  /\ regeneratingIds' = regeneratingIds \ {c.id}
  /\ regenTarget' = Null
  /\ regenCalls' = regenCalls (-) SetToBag({c})
  /\ UNCHANGED <<step, prefs, wizardVars, swipeVars, itineraryId, isUnlocked,
                 totalDays, regenModalOpen, regenCount, genCall, genCount>>
  /\ UNCHANGED <<mountVars, imageVars, serverVars, payVars>>

handleDeleteActivity(dayNum, period, idx) ==
  /\ step = "ITINERARY"
  /\ itinerary # Null
  /\ itinerary' = DeleteActivity(itinerary, dayNum, period, idx)
  /\ UNCHANGED <<step, prefs, wizardVars, swipeVars, itineraryId, isUnlocked,
                 totalDays, regenVars, genCall, genCount>>
  /\ UNCHANGED <<mountVars, imageVars, serverVars, payVars>>

\* faulty variant of saveImageRoute that stores the new image as the whole
\* map (used to show that C37 depends on the update of a single key)
saveImageRouteReplacesMap(store, id, dayNumber, image) ==
  IF id \in Uuids /\ store[id] # Null
  THEN [store EXCEPT ![id] =
          Some([Val(@) EXCEPT !.images =
                  { [dayNumber |-> dayNumber, image |-> image] }])]
  ELSE store

(* ------------------------------ image tasks --------------------------- *)
\* POST /api/save-image: findOneAndUpdate sets images[dayNumber] of the
\* resource with that id, and does nothing when there is none
saveImageRoute(store, id, dayNumber, image) ==
  IF id \in Uuids /\ store[id] # Null
  THEN [store EXCEPT ![id] =
          Some([Val(@) EXCEPT !.images = putImage(@, dayNumber, image)])]
  ELSE store

\* POST /api/generate-image as the fetch wrapper sees it for a task: the image,
\* or null (the service failed, the route answered 500, or fetch threw)
ImageResponses(t) == { Some(Img(t.id, t.dayNumber)), Null }

\* one task of loadImages after its await of generateDayCardImage; saved tells
\* whether its save-image request reaches the server
imageTaskResolve(t, img, saved) ==
  /\ t \in imageTasks
  /\ imageTasks' = imageTasks \ {t}
  /\ IF img # Null
     THEN /\ dayImages' = putImage(dayImages, t.dayNumber, Val(img))
          /\ db' = IF saved
                   THEN saveImageRoute(db, t.id, t.dayNumber, Val(img))
                   ELSE db
     ELSE UNCHANGED <<dayImages, db>>
  /\ UNCHANGED <<step, prefs, wizardVars, swipeVars, sessionVars, regenVars,
                 genCall, genCount, mountVars, stripeSessions, paidVerified, payVars>>

(* ------------------------------ server routes ------------------------- *)
\* POST /api/generate-trip for a plan the generation service returned: the
\* store with the new resource (locked, no images) and the response
generateTripRoute(store, fullPlan, id) ==
  [store |-> [store EXCEPT ![id] =
                Some([plan |-> fullPlan, unlocked |-> FALSE, images |-> {}])],
   response |-> GenerateTripBody(fullPlan, id)]

\* GET /api/itinerary/:id
getItineraryRoute(store, id) ==
  IF id \notin Uuids \/ store[id] = Null
  THEN [kind |-> "error", status |-> 404, error |-> "Itinerary not found"]
  ELSE LET it == Val(store[id])
       IN [kind |-> "ok", id |-> id, unlocked |-> it.unlocked,
           plan |-> IF ~it.unlocked THEN maskPlan(it.plan) ELSE it.plan,
           totalDays |-> Len(it.plan.days), images |-> it.images]

\* faulty variant of verifyPaymentRoute that accepts a paid session whatever
\* its client reference (used to show that C12 depends on the reference test)
verifyPaymentRouteAnyReference(store, sessions, sessionId, itinId) ==
  IF sessionId \notin SessionIds \/ sessions[sessionId] = Null
  THEN [store |-> store,
        response |-> [kind |-> "error", status |-> 500,
                      error |-> "Verification failed"]]
  ELSE LET session == Val(sessions[sessionId])
       IN IF session.payment_status = "paid"
          THEN [store |-> IF itinId \in Uuids /\ store[itinId] # Null
                          THEN [store EXCEPT ![itinId] =
                                  Some([Val(@) EXCEPT !.unlocked = TRUE])]
                          ELSE store,
                response |-> [kind |-> "ok", success |-> TRUE]]
          ELSE [store |-> store,
                response |-> [kind |-> "error", status |-> 400,
                              error |-> "Payment invalid or not completed"]]

\* faulty variant of verifyPaymentRoute that answers success without writing
\* the unlocked flag (used to show that C15 depends on the write)
verifyPaymentRouteNoWrite(store, sessions, sessionId, itinId) ==
  IF sessionId \notin SessionIds \/ sessions[sessionId] = Null
  THEN [store |-> store,
        response |-> [kind |-> "error", status |-> 500,
                      error |-> "Verification failed"]]
  ELSE LET session == Val(sessions[sessionId])
       IN IF /\ session.payment_status = "paid"
             /\ session.client_reference_id = itinId
          THEN [store |-> store,
                response |-> [kind |-> "ok", success |-> TRUE]]
          ELSE [store |-> store,
                response |-> [kind |-> "error", status |-> 400,
                              error |-> "Payment invalid or not completed"]]

\* POST /api/verify-payment: the store after the route and its response;
\* stripe.checkout.sessions.retrieve throws for an unknown session
verifyPaymentRoute(store, sessions, sessionId, itinId) ==
  IF sessionId \notin SessionIds \/ sessions[sessionId] = Null
  THEN [store |-> store,
        response |-> [kind |-> "error", status |-> 500,
                      error |-> "Verification failed"]]
  ELSE LET session == Val(sessions[sessionId])
       IN IF /\ session.payment_status = "paid"
             /\ session.client_reference_id = itinId
          THEN [store |-> IF itinId \in Uuids /\ store[itinId] # Null
                          THEN [store EXCEPT ![itinId] =
                                  Some([Val(@) EXCEPT !.unlocked = TRUE])]
                          ELSE store,
                response |-> [kind |-> "ok", success |-> TRUE]]
          ELSE [store |-> store,
                response |-> [kind |-> "error", status |-> 400,
                              error |-> "Payment invalid or not completed"]]

\* whether the verify-payment request presents a paid checkout session whose
\* client reference is the resource named in the request
PresentsPaidSessionFor(sessions, sessionId, itinId) ==
  /\ sessionId \in SessionIds
  /\ sessions[sessionId] # Null
  /\ Val(sessions[sessionId]).payment_status = "paid"
  /\ Val(sessions[sessionId]).client_reference_id = itinId

\* the verify-payment route processing one request
processVerifyPayment(sessionId, itinId) ==
  /\ db' = verifyPaymentRoute(db, stripeSessions, sessionId, itinId).store
  /\ paidVerified' =
       IF PresentsPaidSessionFor(stripeSessions, sessionId, itinId)
       THEN paidVerified \cup {itinId}
       ELSE paidVerified
  /\ UNCHANGED stripeSessions

\* requests other clients make --------------------------------------------
clientVars == <<step, prefs, wizardVars, swipeVars, sessionVars, regenVars,
                genCall, genCount, mountVars, imageVars, payVars>>

\* some client's generate-trip request succeeds
postGenerateTrip(fullPlan, id) ==
  /\ db[id] = Null
  /\ db' = generateTripRoute(db, fullPlan, id).store
  /\ UNCHANGED <<clientVars, stripeSessions, paidVerified>>

\* some client's image task saves its image
postSaveImage(id, dayNumber) ==
  /\ db[id] # Null
  /\ \E i \in 1..Len(Val(db[id]).plan.days) :
        Val(db[id]).plan.days[i].dayNumber = dayNumber
  /\ db' = saveImageRoute(db, id, dayNumber, Img(id, dayNumber))
  /\ UNCHANGED <<clientVars, stripeSessions, paidVerified>>

\* POST /api/create-checkout-session: a checkout session is created for an
\* existing resource, with that resource as its client reference
postCreateCheckoutSession(itinId, sid) ==
  /\ db[itinId] # Null
  /\ stripeSessions[sid] = Null
  /\ stripeSessions' = [stripeSessions EXCEPT ![sid] =
       Some([client_reference_id |-> itinId,
             payment_status |-> "unpaid"])]
  /\ UNCHANGED <<clientVars, db, paidVerified>>

\* the customer pays on the payment provider's checkout page
stripePayment(sid) ==
  /\ stripeSessions[sid] # Null
  /\ Val(stripeSessions[sid]).payment_status = "unpaid"
  /\ stripeSessions' = [stripeSessions EXCEPT ![sid] =
       Some([Val(@) EXCEPT !.payment_status = "paid"])]
  /\ UNCHANGED <<clientVars, db, paidVerified>>

\* some client posts a verify-payment request
postVerifyPayment(sessionId, itinId) ==
  /\ processVerifyPayment(sessionId, itinId)
  /\ UNCHANGED clientVars

(* ------------------------- mount effect (resume) ---------------------- *)
\* JavaScript truthiness of a URLSearchParams.get result: present and not ''
Truthy(o) == o # Null /\ Val(o) # ""

\* the fetch wrapper of GET /api/itinerary/:id: the body when the status is
\* ok, null otherwise and when fetch throws
getItineraryById(outcome, id) ==
  IF outcome = "delivered" /\ getItineraryRoute(db, id).kind = "ok"
  THEN Some(getItineraryRoute(db, id))
  ELSE Null

\* faulty variant of mountEffect that does not test the session reference
\* (used to show that C18 depends on that test)
mountEffectIgnoresSession(p) ==
  /\ ~mounted
  /\ mounted' = TRUE
  /\ params' = p
  /\ LET sharedId == p.id
         paymentSuccess == p.success
         sessionId == p.session_id
     IN IF Truthy(sharedId)
        THEN IF paymentSuccess = Some("true")
             THEN /\ step' = "VERIFYING_PAYMENT"
                  /\ itineraryId' = Some(Val(sharedId))
                  /\ verifyCall' = Some([id |-> Val(sharedId),
                                         sessionId |->
                                           IF sessionId = Null THEN ""
                                           ELSE Val(sessionId)])
                  /\ UNCHANGED getCall
             ELSE /\ step' = "LOADING"
                  /\ getCall' = Some([id |-> Val(sharedId),
                                      path |-> "normal"])
                  /\ UNCHANGED <<itineraryId, verifyCall>>
        ELSE UNCHANGED <<step, itineraryId, verifyCall, getCall>>
  /\ UNCHANGED <<prefs, wizardVars, swipeVars, itinerary, isUnlocked,
                 totalDays, regenVars, genCall, genCount, imageVars,
                 serverVars, payVars>>

\* the mount effect up to its first await, for the query string p
mountEffect(p) ==
  /\ ~mounted
  /\ mounted' = TRUE
  /\ params' = p
  /\ LET sharedId == p.id
         paymentSuccess == p.success
         sessionId == p.session_id
     IN IF Truthy(sharedId)
        THEN IF paymentSuccess = Some("true") /\ Truthy(sessionId)
             THEN /\ step' = "VERIFYING_PAYMENT"
                  /\ itineraryId' = Some(Val(sharedId))
                  /\ verifyCall' = Some([id |-> Val(sharedId),
                                         sessionId |-> Val(sessionId)])
                  /\ UNCHANGED getCall
             ELSE /\ step' = "LOADING"
                  /\ getCall' = Some([id |-> Val(sharedId),
                                      path |-> "normal"])
                  /\ UNCHANGED <<itineraryId, verifyCall>>
        ELSE UNCHANGED <<step, itineraryId, verifyCall, getCall>>
  /\ UNCHANGED <<prefs, wizardVars, swipeVars, itinerary, isUnlocked,
                 totalDays, regenVars, genCall, genCount, imageVars,
                 serverVars, payVars>>

\* faulty variant of mountVerifyResolve that reloads the resource whatever the
\* verdict (used to show that C16 depends on the failure branch)
mountVerifyResolveAlwaysReloads(outcome) ==
  /\ verifyCall # Null
  /\ verifyCall' = Null
  /\ LET c == Val(verifyCall)
     IN /\ IF outcome = "delivered"
           THEN processVerifyPayment(c.sessionId, c.id)
           ELSE UNCHANGED serverVars
        /\ getCall' = Some([id |-> c.id, path |-> "verify"])
        /\ UNCHANGED step
  /\ UNCHANGED <<prefs, wizardVars, swipeVars, sessionVars, regenVars,
                 genCall, genCount, params, mounted, imageVars, payVars>>

\* verifyPayment(...).then: the route runs when the request is delivered; the
\* wrapper answers data.success === true, false when fetch throws
mountVerifyResolve(outcome) ==
  /\ verifyCall # Null
  /\ verifyCall' = Null
  /\ LET c == Val(verifyCall)
         success ==
           /\ outcome = "delivered"
           /\ verifyPaymentRoute(db, stripeSessions, c.sessionId,
                                 c.id).response.kind = "ok"
     IN /\ IF outcome = "delivered"
           THEN processVerifyPayment(c.sessionId, c.id)
           ELSE UNCHANGED serverVars
        /\ IF success
           THEN /\ getCall' = Some([id |-> c.id, path |-> "verify"])
                /\ UNCHANGED step
           ELSE /\ step' = "START"
                /\ UNCHANGED getCall
  /\ UNCHANGED <<prefs, wizardVars, swipeVars, sessionVars, regenVars,
                 genCall, genCount, params, mounted, imageVars, payVars>>

\* faulty variant of mountGetResolve that sets the unlocked flag on both paths
\* (used to show that C14 depends on the flag taken from the response)
mountGetResolveAlwaysUnlocked(outcome) ==
  /\ getCall # Null
  /\ getCall' = Null
  /\ LET c == Val(getCall)
         data == getItineraryById(outcome, c.id)
     IN IF data # Null
        THEN /\ itinerary' = Some(Val(data).plan)
             /\ itineraryId' = Some(Val(data).id)
             /\ isUnlocked' = TRUE
             /\ totalDays' = Val(data).totalDays
             /\ step' = "ITINERARY"
             /\ loadImages(Val(data).plan.days, Val(data).images,
                           Val(data).id)
             /\ params' = IF c.path = "verify"
                          THEN [params EXCEPT !.success = Null,
                                              !.session_id = Null]
                          ELSE params
        ELSE /\ step' = IF c.path = "verify" THEN step ELSE "START"
             /\ UNCHANGED <<sessionVars, imageVars, params>>
  /\ UNCHANGED <<prefs, wizardVars, swipeVars, regenVars, genCall, genCount,
                 mounted, verifyCall, serverVars, payVars>>

\* faulty variant of mountGetResolve that keeps the totalDays the page had
\* (used to show that C38 depends on the assignment from the response)
mountGetResolveKeepsTotalDays(outcome) ==
  /\ getCall # Null
  /\ getCall' = Null
  /\ LET c == Val(getCall)
         data == getItineraryById(outcome, c.id)
     IN IF data # Null
        THEN /\ itinerary' = Some(Val(data).plan)
             /\ itineraryId' = Some(Val(data).id)
             /\ isUnlocked' = IF c.path = "verify" THEN TRUE
                              ELSE Val(data).unlocked
             /\ totalDays' = totalDays
             /\ step' = "ITINERARY"
             /\ loadImages(Val(data).plan.days, Val(data).images,
                           Val(data).id)
             /\ params' = IF c.path = "verify"
                          THEN [params EXCEPT !.success = Null,
                                              !.session_id = Null]
                          ELSE params
        ELSE /\ step' = IF c.path = "verify" THEN step ELSE "START"
             /\ UNCHANGED <<sessionVars, imageVars, params>>
  /\ UNCHANGED <<prefs, wizardVars, swipeVars, regenVars, genCall, genCount,
                 mounted, verifyCall, serverVars, payVars>>

\* faulty variant of mountGetResolve without the else branch of the normal
\* load (used to show that C39 depends on the return to Start)
mountGetResolveStaysLoading(outcome) ==
  /\ getCall # Null
  /\ getCall' = Null
  /\ LET c == Val(getCall)
         data == getItineraryById(outcome, c.id)
     IN IF data # Null
        THEN /\ itinerary' = Some(Val(data).plan)
             /\ itineraryId' = Some(Val(data).id)
             /\ isUnlocked' = IF c.path = "verify" THEN TRUE
                              ELSE Val(data).unlocked
             /\ totalDays' = Val(data).totalDays
             /\ step' = "ITINERARY"
             /\ loadImages(Val(data).plan.days, Val(data).images,
                           Val(data).id)
             /\ params' = IF c.path = "verify"
                          THEN [params EXCEPT !.success = Null,
                                              !.session_id = Null]
                          ELSE params
        ELSE /\ step' = step
             /\ UNCHANGED <<sessionVars, imageVars, params>>
  /\ UNCHANGED <<prefs, wizardVars, swipeVars, regenVars, genCall, genCount,
                 mounted, verifyCall, serverVars, payVars>>

\* getItineraryById(...).then of either path of the mount effect
mountGetResolve(outcome) ==
  /\ getCall # Null
  /\ getCall' = Null
  /\ LET c == Val(getCall)
         data == getItineraryById(outcome, c.id)
     IN IF data # Null
        THEN /\ itinerary' = Some(Val(data).plan)
             /\ itineraryId' = Some(Val(data).id)
             /\ isUnlocked' = IF c.path = "verify" THEN TRUE
                              ELSE Val(data).unlocked
             /\ totalDays' = Val(data).totalDays
             /\ step' = "ITINERARY"
             /\ loadImages(Val(data).plan.days, Val(data).images,
                           Val(data).id)
             /\ params' = IF c.path = "verify"
                          THEN [params EXCEPT !.success = Null,
                                              !.session_id = Null]
                          ELSE params
        ELSE /\ step' = IF c.path = "verify" THEN step ELSE "START"
             /\ UNCHANGED <<sessionVars, imageVars, params>>
  /\ UNCHANGED <<prefs, wizardVars, swipeVars, regenVars, genCall, genCount,
                 mounted, verifyCall, serverVars, payVars>>

(* ------------------------------ payment ------------------------------- *)
\* POST /api/create-checkout-session for the client's own request: 404 when
\* the resource does not exist, otherwise a checkout session sid with the
\* resource as its client reference and the session's address in the body
createCheckoutSessionRoute(store, sessions, itinId, sid) ==
  IF itinId \notin Uuids \/ store[itinId] = Null
  THEN [sessions |-> sessions,
        response |-> [kind |-> "error", status |-> 404,
                      error |-> "Itinerary not found"]]
  ELSE [sessions |-> [sessions EXCEPT ![sid] =
                        Some([client_reference_id |-> itinId,
                              payment_status |-> "unpaid"])],
        response |-> [kind |-> "ok", url |-> sid]]

\* the fetch wrapper: data.url || null, and null when fetch throws
createCheckoutSession(resp) ==
  IF resp.kind = "ok" THEN Some(resp.url) ELSE Null

\* the unlock button of the locked-state overlay, up to the await
handlePayment ==
  /\ step = "ITINERARY"
  /\ unlockOverlayShown
  /\ locationHref = Null
  /\ ~isLoadingPayment
  /\ itineraryId # Null
  /\ isLoadingPayment' = TRUE
  /\ payCall' = Some([itineraryId |-> Val(itineraryId)])
  /\ UNCHANGED <<step, prefs, wizardVars, swipeVars, sessionVars, regenVars,
                 genCall, genCount, locationHref, lastCheckout>>
  /\ UNCHANGED <<mountVars, imageVars, serverVars>>

\* faulty variant of handlePaymentResolve whose failure branch leaves the
\* payment-in-progress flag set (used to show that C40 depends on the reset)
handlePaymentResolveKeepsFlag(outcome, sid) ==
  /\ payCall # Null
  /\ locationHref = Null
  /\ outcome = "delivered" /\ db[Val(payCall).itineraryId] # Null
       => stripeSessions[sid] = Null
  /\ payCall' = Null
  /\ LET c == Val(payCall)
         route == createCheckoutSessionRoute(db, stripeSessions,
                                             c.itineraryId, sid)
         resp == IF outcome = "delivered" THEN route.response
                 ELSE IF outcome = "server_error"
                      THEN [kind |-> "error", status |-> 500,
                            error |-> "Failed to create checkout session"]
                      ELSE [kind |-> "throw"]
         url == createCheckoutSession(resp)
     IN /\ stripeSessions' = IF outcome = "delivered" THEN route.sessions
                             ELSE stripeSessions
        /\ lastCheckout' = IF url # Null THEN "navigated"
                           ELSE IF resp.kind = "throw" THEN "threw"
                           ELSE ToString(resp.status)
        /\ IF url # Null
           THEN /\ locationHref' = url
                /\ UNCHANGED isLoadingPayment
           ELSE UNCHANGED <<isLoadingPayment, locationHref>>
  /\ UNCHANGED <<step, prefs, wizardVars, swipeVars, sessionVars, regenVars,
                 genCall, genCount, db, paidVerified>>
  /\ UNCHANGED <<mountVars, imageVars>>

\* handlePayment after its await: the page navigates to the checkout address,
\* or the alert is shown and the flag is reset
handlePaymentResolve(outcome, sid) ==
  /\ payCall # Null
  /\ locationHref = Null
  /\ outcome = "delivered" /\ db[Val(payCall).itineraryId] # Null
       => stripeSessions[sid] = Null
  /\ payCall' = Null
  /\ LET c == Val(payCall)
         route == createCheckoutSessionRoute(db, stripeSessions,
                                             c.itineraryId, sid)
         resp == IF outcome = "delivered" THEN route.response
                 ELSE IF outcome = "server_error"
                      THEN [kind |-> "error", status |-> 500,
                            error |-> "Failed to create checkout session"]
                      ELSE [kind |-> "throw"]
         url == createCheckoutSession(resp)
     IN /\ stripeSessions' = IF outcome = "delivered" THEN route.sessions
                             ELSE stripeSessions
        /\ lastCheckout' = IF url # Null THEN "navigated"
                           ELSE IF resp.kind = "throw" THEN "threw"
                           ELSE ToString(resp.status)
        /\ IF url # Null
           THEN /\ locationHref' = url
                /\ UNCHANGED isLoadingPayment
           ELSE /\ isLoadingPayment' = FALSE
                /\ UNCHANGED locationHref
  /\ UNCHANGED <<step, prefs, wizardVars, swipeVars, sessionVars, regenVars,
                 genCall, genCount, db, paidVerified>>
  /\ UNCHANGED <<mountVars, imageVars>>

(* ---------------------------- specifications -------------------------- *)
Wizard ==
  \/ \E d \in Destinations : setDestination(d)
  \/ \E r \in DateRanges : setDates(r[1], r[2])
  \/ \E a \in Ages : setAge(a)
  \/ handleStartSubmit
  \/ \E resp \in ValidationResponses : handleStartSubmitResolve(resp)
  \/ backToStart
  \/ handlePreferencesSubmit
  \/ backToPreferences
  \/ handleSpecificsSubmit

Generation ==
  \/ \E resp \in GenerateTripResponses(genCount) : generateTripResolve(resp)
  \/ restart

\* the demographics controls of the Preferences step
Demographics ==
  \/ \E t \in TripTypes : setTripType(t)
  \/ \E g \in Genders : setGender(g)
  \/ \E r \in KidsAgeRanges : setKidsAgeRange(r)

RegenDelete ==
  \/ \E s \in DisplayedSlots :
       openRegenerateModal(s.day.dayNumber, s.period, s.idx,
                           s.day[s.period][s.idx + 1])
  \/ closeRegenerateModal
  \/ confirmRegeneration
  \/ \E c \in BagToSet(regenCalls) : \E resp \in AlternativeResponses :
       confirmRegenerationResolve(c, resp)
  \/ \E s \in DisplayedSlots :
       handleDeleteActivity(s.day.dayNumber, s.period, s.idx)

Swipe ==
  \/ \E direction \in {"left", "right"} : handleSwipeComplete(direction)
  \/ swipeTimeout
  \/ \E x \in StartXs : onPointerDown(x)
  \/ \E x \in ClientXs : onPointerMove(x)
  \/ onPointerUp

\* the slot regeneration / deletion controller, reached through a wizard
\* whose question service returns no questions
Next ==
  \/ Wizard
  \/ \E resp \in NoQuestionsResponses : handleSpecificsSubmitResolve(resp)
  \/ Generation
  \/ RegenDelete

Spec == Init /\ [][Next]_vars

\* the swipe interpreter, with the itinerary only displayed
NextSwipe ==
  \/ Wizard
  \/ \E resp \in CheckEventsResponses : handleSpecificsSubmitResolve(resp)
  \/ Swipe
  \/ Generation

SpecSwipe == Init /\ [][NextSwipe]_vars

\* the wizard with every trip type, up to the question cards or the itinerary
NextWizard ==
  \/ Wizard
  \/ Demographics
  \/ \E resp \in CheckEventsResponses : handleSpecificsSubmitResolve(resp)
  \/ Generation

SpecWizard == Init /\ [][NextWizard]_vars

\* a regeneration from the press of the card's button to its completion
Regeneration ==
  \/ \E s \in DisplayedSlots :
       openRegenerateModal(s.day.dayNumber, s.period, s.idx,
                           s.day[s.period][s.idx + 1])
  \/ confirmRegeneration
  \/ \E c \in BagToSet(regenCalls) : \E resp \in AlternativeResponses :
       confirmRegenerationResolve(c, resp)

\* the completions of the image tasks
Images ==
  \E t \in imageTasks : \E img \in ImageResponses(t) : \E saved \in BOOLEAN :
     imageTaskResolve(t, img, saved)

\* planning rounds one after another, with their image tasks and regenerations
NextSession ==
  \/ Wizard
  \/ \E resp \in NoQuestionsResponses : handleSpecificsSubmitResolve(resp)
  \/ Generation
  \/ Images
  \/ Regeneration

SpecSession == Init /\ [][NextSession]_vars

\* the mount effect and its continuations
Resume ==
  \/ \E p \in EntryParams : mountEffect(p)
  \/ \E outcome \in Transport : mountVerifyResolve(outcome)
  \/ \E outcome \in Transport : mountGetResolve(outcome)

\* the requests the server receives from other clients, and payments
Server ==
  \/ \E fullPlan \in FullPlans : \E id \in Uuids :
       postGenerateTrip(fullPlan, id)
  \/ \E id \in Uuids : \E dayNumber \in SaveDays : postSaveImage(id, dayNumber)
  \/ \E id \in Uuids : \E sid \in SessionIds :
       postCreateCheckoutSession(id, sid)
  \/ \E sid \in SessionIds : stripePayment(sid)
  \/ \E sid \in SessionIds : \E id \in Uuids : postVerifyPayment(sid, id)

\* a page opened with a query string against a server that other clients use
NextResume ==
  \/ Resume
  \/ Server

SpecResume == InitResume /\ [][NextResume]_vars

\* a resumed page with its image tasks, against a server other clients use
NextHydration ==
  \/ Resume
  \/ Server
  \/ Images

SpecHydration == InitResume /\ [][NextHydration]_vars

\* the image tasks of planning rounds one after another
NextImages ==
  \/ Wizard
  \/ \E resp \in NoQuestionsResponses : handleSpecificsSubmitResolve(resp)
  \/ Generation
  \/ Images

SpecImages == Init /\ [][NextImages]_vars

\* the slot controller on a shared link to a resource another client stored
NextSlots ==
  \/ postGenerateTrip(PlanC, "1")
  \/ mountEffect(SharedLinkParams)
  \/ \E outcome \in Transport : mountGetResolve(outcome)
  \/ RegenDelete

SpecSlots == InitResume /\ [][NextSlots]_vars

\* the unlock button and the continuation of its checkout request
Payment ==
  \/ handlePayment
  \/ \E outcome \in Transport : \E sid \in SessionIds :
       handlePaymentResolve(outcome, sid)

\* a resumed page with its unlock button, against a server other clients use
NextPayment ==
  \/ Resume
  \/ Server
  \/ Payment

SpecPayment == InitResume /\ [][NextPayment]_vars

\* user input is handled once the mount effect has run
MountedWizard == mounted /\ Wizard

\* every way into Loading: the mount effect on a shared link, the Specifics
\* step, and the last question card answered with a button
NextLoading ==
  \/ postGenerateTrip(PlanC, "1")
  \/ \E p \in {NoParams, SharedLinkParams} : mountEffect(p)
  \/ \E outcome \in Transport : mountGetResolve(outcome)
  \/ MountedWizard
  \/ \E resp \in CheckEventsResponses : handleSpecificsSubmitResolve(resp)
  \/ \E direction \in {"left", "right"} : handleSwipeComplete(direction)
  \/ swipeTimeout
  \/ Generation

SpecLoading == InitResume /\ [][NextLoading]_vars

\* every external call eventually returns: the question service, the
\* generation service and the load of the resource are eventually answered or
\* fail
SpecLoadingFair ==
  /\ SpecLoading
  /\ WF_vars(\E resp \in CheckEventsResponses :
               handleSpecificsSubmitResolve(resp))
  /\ WF_vars(\E resp \in GenerateTripResponses(genCount) :
               generateTripResolve(resp))
  /\ WF_vars(\E outcome \in Transport : mountGetResolve(outcome))

\* every request of the mount effect is eventually answered or fails
SpecResumeFair ==
  /\ SpecResume
  /\ WF_vars(\E outcome \in Transport : mountVerifyResolve(outcome))
  /\ WF_vars(\E outcome \in Transport : mountGetResolve(outcome))

(* ============================ properties ============================== *)
\* a step that is the completion of call c with response resp
IsResolve(c, resp) == BagIn(c, regenCalls) /\ confirmRegenerationResolve(c, resp)

\* a step that completes call c: only a completion takes a call out of flight
Completes(c) == BagIn(c, regenCalls) /\ regenCalls' = regenCalls (-) SetToBag({c})

\* the days of an itinerary cell (none when the cell is null)
DaysOf(it) == IF it = Null THEN <<>> ELSE Val(it).days

\* the list before and after a step differ at most at 0-based position idx
SameExceptAt(before, after, idx) ==
  /\ Len(after) = Len(before)
  /\ \A j \in 1..Len(before) : j # idx + 1 => after[j] = before[j]

\* C1: a confirmRegeneration for a slot key that is already in the in-flight
\* set changes neither the in-flight set nor the itinerary and issues no call
\* to the alternative-activity capability.
C1_DuplicateRequestIsNoOp ==
  [][ ( /\ regenTarget # Null
        /\ SlotId(Val(regenTarget).dayNum, Val(regenTarget).period,
                  Val(regenTarget).idx) \in regeneratingIds
        /\ confirmRegeneration )
      => /\ regeneratingIds' = regeneratingIds
         /\ regenCalls' = regenCalls
         /\ itinerary' = itinerary ]_vars

\* C2: a regeneration that completes with an activity changes the itinerary at
\* most at position idx of the list of its (day, period): that list keeps its
\* length and its other positions, every other period and every other day is
\* kept, and with no day of that dayNumber the itinerary is unchanged.
C2_SuccessWritesOnlyItsSlot ==
  [][ \A c \in BagToSet(regenCalls) :
        (Completes(c) /\ lastOutcome' # "no_result")
        => /\ (itinerary = Null) = (itinerary' = Null)
           /\ itinerary # Null =>
                /\ Val(itinerary').destination = Val(itinerary).destination
                /\ Len(DaysOf(itinerary')) = Len(DaysOf(itinerary))
                /\ \A i \in 1..Len(DaysOf(itinerary)) :
                     LET d == DaysOf(itinerary)[i]
                         e == DaysOf(itinerary')[i]
                     IN /\ e.dayNumber = d.dayNumber
                        /\ \A p \in Periods :
                             IF d.dayNumber = c.dayNum /\ p = c.period
                             THEN SameExceptAt(d[p], e[p], c.idx)
                             ELSE e[p] = d[p]
           /\ (\A i \in 1..Len(DaysOf(itinerary)) :
                 DaysOf(itinerary)[i].dayNumber # c.dayNum)
              => itinerary' = itinerary ]_vars

\* a completion has written its activity and, in a later session, another one
\* found no day of its dayNumber
C2_Witness ==
  /\ lastOutcome = "no_day"
  /\ itinerary # Null
  /\ regenCalls = EmptyBag

\* C3: when the alternative-activity capability fails (the service fails and
\* the route answers null, the route answers with its error body, or the fetch
\* throws) the completion leaves the itinerary and the step unchanged.
C3_FailureLeavesItinerary ==
  [][ \A c \in BagToSet(regenCalls) : \A resp \in AlternativeResponses :
        (IsResolve(c, resp) /\ resp # [kind |-> "ok", result |-> Some(Act("alt"))])
        => (itinerary' = itinerary /\ step' = step) ]_vars

\* C4: every completion of a regeneration, whatever its outcome, removes its
\* key from the in-flight set, and when no regeneration is in flight the
\* in-flight set is empty.
C4_KeyRemovedOnEveryPath ==
  /\ [](regenCalls = EmptyBag => regeneratingIds = {})
  /\ [][ \A c \in BagToSet(regenCalls) :
           Completes(c) => c.id \notin regeneratingIds' ]_vars

\* every started regeneration has completed, the last one without a result
C4_Witness ==
  /\ regenCount = MaxRegens
  /\ regenCalls = EmptyBag
  /\ lastOutcome = "no_result"
  /\ regeneratingIds = {}

\* C5: a regeneration completion never lengthens the (day, period) list it
\* targets and changes no position outside the bounds the list has at
\* completion time; with idx >= the current length the list is unchanged.
C5_CompletionStaysInBounds ==
  [][ \A c \in BagToSet(regenCalls) :
        Completes(c)
        => \A i \in 1..Len(DaysOf(itinerary)) :
             DaysOf(itinerary)[i].dayNumber = c.dayNum
             => LET before == DaysOf(itinerary)[i][c.period]
                    after == DaysOf(itinerary')[i][c.period]
                IN /\ Len(after) <= Len(before)
                   /\ c.idx >= Len(before) => after = before
                   /\ \A j \in 1..Len(after) :
                        after[j] # before[j]
                        => (j = c.idx + 1 /\ c.idx < Len(before)) ]_vars

\* a deletion shortened the list under an in-flight regeneration, whose
\* completion then found its idx out of range
C5_Witness ==
  /\ lastOutcome = "out_of_range"
  /\ step = "ITINERARY"
  /\ itinerary # Null

\* C6: a delete of (day, period, idx) with idx inside the list yields the old
\* list without element idx, later items moved down by one in their order, in
\* one step that issues and completes no call and keeps every other period,
\* every other day and the in-flight set.
C6_DeleteRemovesExactlyOne ==
  [][ \A s \in DisplayedSlots :
        (regenVars' = regenVars /\ step' = step
         /\ handleDeleteActivity(s.day.dayNumber, s.period, s.idx))
        => /\ itinerary' # Null
           /\ Len(DaysOf(itinerary')) = Len(DaysOf(itinerary))
           /\ \A i \in 1..Len(DaysOf(itinerary)) :
                LET d == DaysOf(itinerary)[i]
                    e == DaysOf(itinerary')[i]
                IN /\ e.dayNumber = d.dayNumber
                   /\ \A p \in Periods :
                        IF d.dayNumber = s.day.dayNumber /\ p = s.period
                        THEN /\ Len(e[p]) = Len(d[p]) - 1
                             /\ \A j \in 1..Len(e[p]) :
                                  e[p][j] = IF j <= s.idx THEN d[p][j]
                                            ELSE d[p][j + 1]
                        ELSE e[p] = d[p]
           /\ regeneratingIds' = regeneratingIds
           /\ regenCalls' = regenCalls
           /\ genCall' = genCall
           /\ step' = step ]_vars

\* index 0 of a two-item list was deleted while a regeneration was in flight:
\* the second item is now the first
C6_Witness ==
  /\ step = "ITINERARY"
  /\ itinerary # Null
  /\ Len(DaysOf(itinerary)) > 0
  /\ DaysOf(itinerary)[1].morning = <<Act("a2")>>
  /\ regeneratingIds # {}

(* ------------------- properties of the swipe interpreter --------------- *)
Range(seq) == { seq[i] : i \in 1..Len(seq) }

\* the ids that have an entry in a followUpAnswers map
AnswerIds(answers) == { e.id : e \in answers }

\* the step in which the machine leaves Questions for Loading
LeavesQuestions == step = "QUESTIONS" /\ step' = "LOADING"

\* C7: at every transition from Questions into Loading the key set of the
\* draft's follow-up answers is exactly the set of ids of the question set of
\* this traversal, one boolean entry per id.
C7_AnswersKeyedByQuestionSet ==
  [][ LeavesQuestions
      => /\ AnswerIds(prefs'.followUpAnswers) = Range(smartQuestions)
         /\ Cardinality(prefs'.followUpAnswers) =
              Cardinality(Range(smartQuestions))
         /\ \A e \in prefs'.followUpAnswers : e.answer \in BOOLEAN ]_vars

\* C8: the preferences passed to generateItinerary when generation starts from
\* Questions are the draft as it stands at the transition into Loading, with
\* an answer for every question of the traversal, the last one included.
C8_GenerationGetsDraftAtLoading ==
  [][ LeavesQuestions
      => /\ genCall' # Null
         /\ Val(genCall').prefs = prefs'
         /\ Range(smartQuestions) \subseteq
              AnswerIds(Val(genCall').prefs.followUpAnswers) ]_vars

\* C9: within a traversal the ids committed so far are the received question
\* sequence from its front, in order, none skipped and none twice, and the
\* machine leaves Questions only when the whole sequence has been committed.
C9_CommittedInReceivedOrder ==
  /\ [](step = "QUESTIONS"
        => /\ Len(committed) <= Len(smartQuestions)
           /\ committed = SubSeq(smartQuestions, 1, Len(committed)))
  /\ [][ LeavesQuestions => committed = smartQuestions ]_vars

\* a traversal of two questions has been completed
C9_Witness ==
  /\ step = "LOADING"
  /\ genCall # Null
  /\ smartQuestions = <<"q3", "q1">>
  /\ committed = <<"q3", "q1">>

\* C10: a release that ends a gesture with horizontal delta d commits true for
\* the active question when d > 100, commits false when d < -100, and commits
\* nothing when -100 <= d <= 100.
C10_ReleaseClassification ==
  [][ (dragStart # Null /\ dragStart' = Null)
      => LET d == dragDelta.x
             q == smartQuestions[currentQuestionIndex + 1]
             commits(answer) ==
               /\ [id |-> q, answer |-> answer] \in prefs'.followUpAnswers
               /\ committed' = Append(committed, q)
               /\ isAnimatingOut' # Null
               /\ swipeTimer' # Null
         IN /\ d > 100 => commits(TRUE)
            /\ d < -100 => commits(FALSE)
            /\ (-100 <= d /\ d <= 100)
               => /\ prefs' = prefs
                  /\ committed' = committed
                  /\ isAnimatingOut' = Null
                  /\ swipeTimer' = swipeTimer ]_vars

\* a drag released at delta threshold + 1 has committed true
C10_Witness ==
  /\ lastRelease = Some([x |-> 101])
  /\ dragStart = Null
  /\ isAnimatingOut = Some("right")
  /\ [id |-> smartQuestions[currentQuestionIndex + 1], answer |-> TRUE]
       \in prefs.followUpAnswers

(* ------------- properties of the server and of the resume paths -------- *)
Min(a, b) == IF a < b THEN a ELSE b

\* a parameter of the query string is present when it has a non-empty value
Present(o) == o # Null /\ Val(o) # ""

\* the resource with that id, as stored
Stored(id) == Val(db[id])

\* the first n days of a plan
FirstDays(plan, n) == [plan EXCEPT !.days = SubSeq(plan.days, 1, n)]

\* C11: every response the server gives for a locked resource (generate-trip
\* and itinerary-by-id) carries at most min(2, totalDays) days, they are the
\* first days of the stored plan, and totalDays is the number of days of the
\* stored plan.
C11_LockedResponsesAreMasked ==
  \A id \in Uuids :
    (db[id] # Null /\ ~Stored(id).unlocked)
    => LET stored == Stored(id).plan
           total == Len(stored.days)
           Masked(r) ==
             /\ r.kind = "ok"
             /\ Len(r.plan.days) <= Min(2, total)
             /\ r.plan.days = SubSeq(stored.days, 1, Len(r.plan.days))
             /\ r.totalDays = total
       IN /\ Masked(getItineraryRoute(db, id))
          /\ Masked(generateTripRoute(db, stored, id).response)

\* a client has loaded a locked three-day resource and holds two days of it
C11_Witness ==
  /\ step = "ITINERARY"
  /\ ~isUnlocked
  /\ itineraryId # Null
  /\ db[Val(itineraryId)] # Null
  /\ ~Stored(Val(itineraryId)).unlocked
  /\ Len(Stored(Val(itineraryId)).plan.days) = 3
  /\ Len(Val(itinerary).days) = 2
  /\ totalDays = 3

\* C12: a resource is unlocked exactly when a verify-payment request for its
\* id has been processed with a paid session whose client reference is that
\* id; any other step leaves every unlocked flag as it is, and no flag goes
\* back to locked.
C12_UnlockedIffPaidVerified ==
  /\ [](\A id \in Uuids :
          db[id] # Null => (Stored(id).unlocked <=> id \in paidVerified))
  /\ [][ \A id \in Uuids :
           db[id] # Null
           => /\ db'[id] # Null
              /\ Stored(id).unlocked => Val(db'[id]).unlocked
              /\ Val(db'[id]).unlocked # Stored(id).unlocked
                 => id \in paidVerified' /\ id \notin paidVerified ]_vars

\* one resource has been unlocked by a verification while another stays locked
C12_Witness ==
  /\ \E id \in Uuids : db[id] # Null /\ Stored(id).unlocked
                       /\ id \in paidVerified
  /\ \E id \in Uuids : db[id] # Null /\ ~Stored(id).unlocked

\* C13: in step Itinerary with unlocked false, min(2, totalDays) days are
\* displayed, lockedDaysCount is totalDays minus the displayed days and is not
\* negative, and the unlock overlay is shown exactly when lockedDaysCount > 0;
\* with unlocked true no overlay is shown.
C13_DisplayRule ==
  (step = "ITINERARY" /\ itinerary # Null)
  => /\ ~isUnlocked
        => /\ Len(displayDays) = Min(2, totalDays)
           /\ lockedDaysCount = totalDays - Min(2, totalDays)
           /\ lockedDaysCount >= 0
           /\ unlockOverlayShown <=> lockedDaysCount > 0
     /\ isUnlocked => ~unlockOverlayShown

\* a locked three-day session shows two days and the overlay for one more
C13_Witness ==
  /\ step = "ITINERARY"
  /\ itinerary # Null
  /\ ~isUnlocked
  /\ totalDays = 3
  /\ Len(displayDays) = 2
  /\ lockedDaysCount = 1
  /\ unlockOverlayShown

\* the pending itinerary-by-id call of the normal resume path completes
NormalLoadCompletes ==
  getCall # Null /\ Val(getCall).path = "normal" /\ getCall' = Null

\* C14: a normal resume stays in Loading until its load completes and then
\* enters Itinerary with the client's unlocked flag, totalDays, plan and image
\* cache equal to the loaded resource's (the plan as served for its flag), or
\* goes to Start; it goes to Start when the resource is not found.
C14_NormalResume ==
  /\ [](getCall # Null /\ Val(getCall).path = "normal" => step = "LOADING")
  /\ [][ NormalLoadCompletes
         => LET id == Val(getCall).id
                found == id \in Uuids /\ db[id] # Null
            IN /\ step' \in {"ITINERARY", "START"}
               /\ ~found => step' = "START"
               /\ step' = "ITINERARY"
                  => /\ found
                     /\ itineraryId' = Some(id)
                     /\ isUnlocked' = Stored(id).unlocked
                     /\ totalDays' = Len(Stored(id).plan.days)
                     /\ itinerary' =
                          Some(IF Stored(id).unlocked THEN Stored(id).plan
                               ELSE FirstDays(Stored(id).plan,
                                        Min(2, Len(Stored(id).plan.days))))
                     /\ dayImages' = Stored(id).images ]_vars

\* a normal resume has loaded a locked three-day resource with a saved image
C14_Witness ==
  /\ step = "ITINERARY"
  /\ mounted
  /\ params.session_id = Null
  /\ ~isUnlocked
  /\ totalDays = 3
  /\ dayImages = { [dayNumber |-> 1, image |-> Img(Val(itineraryId), 1)] }

\* C15: a resume with locator, success marker 'true' and session reference
\* enters VerifyingPayment; once verification has succeeded the resource to
\* reload is unlocked, and on entering Itinerary all totalDays days of the
\* stored plan are displayed.
C15_VerifiedResumeShowsAllDays ==
  /\ [](verifyCall # Null => step = "VERIFYING_PAYMENT")
  /\ [](getCall # Null /\ Val(getCall).path = "verify"
        => /\ step = "VERIFYING_PAYMENT"
           /\ db[Val(getCall).id] # Null
           /\ Stored(Val(getCall).id).unlocked)
  /\ [][ (step = "VERIFYING_PAYMENT" /\ step' = "ITINERARY")
         => /\ isUnlocked'
            /\ totalDays' = Len(Stored(Val(getCall).id).plan.days)
            /\ Len(displayDays') = totalDays' ]_vars

\* verification of a three-day resource has succeeded and its reload is pending
C15_Witness ==
  /\ step = "VERIFYING_PAYMENT"
  /\ getCall # Null
  /\ Val(getCall).path = "verify"
  /\ Len(Stored(Val(getCall).id).plan.days) = 3
  /\ Stored(Val(getCall).id).unlocked

\* the pending verify-payment call of the mount effect completes
VerificationCompletes == verifyCall # Null /\ verifyCall' = Null

\* C16: when verification fails the machine goes from VerifyingPayment to
\* Start with no reload pending, so Itinerary is not entered on that path, and
\* the client's unlocked flag stays false.
C16_FailedVerificationGoesToStart ==
  /\ [][ VerificationCompletes
         => LET c == Val(verifyCall)
                failed == getCall' = Null
            IN /\ ~PresentsPaidSessionFor(stripeSessions, c.sessionId, c.id)
                  => failed
               /\ failed => /\ step' = "START"
                            /\ ~isUnlocked'
                            /\ itinerary' = Null ]_vars
  /\ [][ (mounted /\ step = "START") => step' = "START" ]_vars

\* a verification resume has failed and the machine is at Start
C16_Witness ==
  /\ mounted
  /\ step = "START"
  /\ Present(params.id)
  /\ params.success = Some("true")
  /\ Present(params.session_id)
  /\ verifyCall = Null
  /\ ~isUnlocked

\* C17: every execution that enters VerifyingPayment eventually reaches
\* Itinerary or Start, whatever the outcomes of the verification call and of
\* the reload, provided every call eventually returns.
C17_VerifyingPaymentEnds ==
  (step = "VERIFYING_PAYMENT") ~> (step \in {"ITINERARY", "START"})

\* C18: the entry path is determined by the entry parameters: verification
\* resume iff locator, success marker 'true' and session reference are present;
\* normal resume iff a locator is present and that does not hold; fresh start
\* (step stays Start, no call) iff no locator is present.
C18_EntryPathFromParams ==
  [][ (~mounted /\ mounted')
      => LET verification ==
               /\ Present(params'.id)
               /\ params'.success = Some("true")
               /\ Present(params'.session_id)
         IN /\ (step' = "VERIFYING_PAYMENT" /\ verifyCall' # Null
                                            /\ getCall' = Null)
               <=> verification
            /\ (step' = "LOADING" /\ getCall' # Null /\ verifyCall' = Null)
               <=> (Present(params'.id) /\ ~verification)
            /\ (step' = "START" /\ getCall' = Null /\ verifyCall' = Null)
               <=> ~Present(params'.id) ]_vars

\* a page opened with a locator, a success marker other than 'true' and a
\* session reference is on the normal resume path
C18_Witness ==
  /\ mounted
  /\ params.id = Some("1")
  /\ params.success = Some("false")
  /\ params.session_id = Some("cs1")
  /\ step = "LOADING"
  /\ getCall = Some([id |-> "1", path |-> "normal"])
  /\ verifyCall = Null

(* ------------------------ properties of a session ---------------------- *)
\* C19: the restart affordance in Itinerary sets the step to Start and leaves
\* the empty initial preference draft and an empty image cache.
C19_RestartDiscardsDraft ==
  [][ (step = "ITINERARY" /\ step' = "START")
      => /\ prefs' = InitialPrefs
         /\ dayImages' = {} ]_vars

\* C20: the completion of an image task or of a regeneration that was started
\* under a session other than the current one changes neither the image cache
\* nor the itinerary.
C20_LateResultsIgnored ==
  /\ [][ \A t \in imageTasks :
           (t \notin imageTasks' /\ itineraryId # Some(t.id))
           => /\ dayImages' = dayImages
              /\ itinerary' = itinerary ]_vars
  /\ [][ \A c \in BagToSet(regenCalls) :
           (Completes(c) /\ c.session # itineraryId)
           => /\ itinerary' = itinerary
              /\ dayImages' = dayImages ]_vars

C22_ValidationErrorProceeds ==
  [][ \A resp \in ValidationResponses :
        (resp.kind \in {"error", "throw"} /\ handleStartSubmitResolve(resp))
        => step' = "PREFERENCES" ]_vars

\* the demographics the trip type of a draft requires are filled in
DemographicsComplete(p) ==
  CASE p.tripType = "Solo" ->
         p.demographics.gender # "" /\ p.demographics.age # ""
    [] p.tripType \in {"Couple", "Friends"} -> p.demographics.age # ""
    [] p.tripType = "Family" -> p.demographics.kidsAgeRange # ""

\* C23: for every trip type, submitting Preferences goes on to Specifics
\* exactly when the demographics that type requires are complete (Solo: gender
\* and age; Couple, Friends: age; Family: kidsAgeRange); otherwise the step
\* stays Preferences.
C23_PreferencesGate ==
  /\ [](step = "PREFERENCES"
        => (ENABLED handlePreferencesSubmit <=> DemographicsComplete(prefs)))
  /\ [][ (step = "PREFERENCES" /\ step' = "SPECIFICS")
         => DemographicsComplete(prefs) ]_vars
  /\ [][ handlePreferencesSubmit => step' = "SPECIFICS" ]_vars

\* a Solo draft with gender and age has passed to Specifics
C23_Witness ==
  /\ step = "SPECIFICS"
  /\ prefs.tripType = "Solo"
  /\ prefs.demographics.gender = "Female"
  /\ prefs.demographics.age = "30"

\* C24: submitting Specifics enters Loading and requests the question set
\* once; a non-empty set leads to Questions with active index 0, and an empty
\* set or a failed request starts the generation without entering Questions.
C24_SpecificsSubmit ==
  /\ [][ (questionsCall = Null /\ questionsCall' # Null)
         => step = "SPECIFICS" /\ step' = "LOADING" ]_vars
  /\ [][ (step = "SPECIFICS" /\ step' # "SPECIFICS")
         => \/ step' = "PREFERENCES"
            \/ step' = "LOADING" /\ questionsCall = Null
               /\ questionsCall' # Null ]_vars
  /\ [](questionsCall # Null => step = "LOADING" /\ genCall = Null)
  /\ [][ \A resp \in CheckEventsResponses :
           (questionsCall # Null /\ handleSpecificsSubmitResolve(resp))
           => /\ questionsCall' = Null
              /\ IF resp.kind = "ok" /\ resp.questions # <<>>
                 THEN /\ step' = "QUESTIONS"
                      /\ smartQuestions' = resp.questions
                      /\ currentQuestionIndex' = 0
                      /\ genCall' = Null
                 ELSE /\ step' = "LOADING"
                      /\ genCall' # Null ]_vars

\* a two-question set has arrived for a Friends trip: Questions at index 0
C24_Witness ==
  /\ step = "QUESTIONS"
  /\ smartQuestions = <<"q1", "q2">>
  /\ currentQuestionIndex = 0
  /\ genCall = Null
  /\ prefs.tripType = "Friends"

\* C25: when the generation gives no itinerary (fetch throws or the body has
\* no plan) the step goes from Loading to Start, itinerary, id, unlocked flag
\* and totalDays keep their values, nothing is left pending that could issue
\* the call again, and a new call is only issued by the continuation of a
\* Specifics submit or of a swipe commit.
C25_FailedGenerationGoesToStart ==
  /\ [][ \A resp \in GenerateTripResponses(genCount) :
           (resp.kind # "ok" /\ generateTripResolve(resp))
           => /\ step = "LOADING"
              /\ step' = "START"
              /\ genCall' = Null
              /\ questionsCall' = Null
              /\ swipeTimer' = Null
              /\ UNCHANGED <<itinerary, itineraryId, isUnlocked, totalDays>>
     ]_vars
  /\ [][ (genCall' # Null /\ genCall' # genCall)
         => questionsCall # Null \/ swipeTimer # Null ]_vars
  /\ [][ (questionsCall = Null /\ questionsCall' # Null)
         => step = "SPECIFICS" ]_vars
  /\ [][ (swipeTimer = Null /\ swipeTimer' # Null)
         => step = "QUESTIONS" ]_vars

\* the second generation has failed after a first one that succeeded: the
\* machine is at Start and still holds the first session
C25_Witness ==
  /\ step = "START"
  /\ genCount = 2
  /\ genCall = Null
  /\ itineraryId = Some("1")
  /\ itinerary # Null

(* ------------------------ properties of the image tasks ---------------- *)
\* the day numbers of a day list
DayNumbers(days) == { days[i].dayNumber : i \in 1..Len(days) }

\* whether an image map has an entry for a day number
HasImage(images, dayNumber) == \E e \in images : e.dayNumber = dayNumber

\* C26: each trigger of loadImages (a successful generation or a completed
\* resume) starts exactly the tasks of the days of its day list that have no
\* known image, one per day, and none for a day that has one; tasks are
\* started by nothing else, and the step that starts them is the one that
\* enters Itinerary, so the itinerary is shown while they are all pending.
C26_OneTaskPerMissingDay ==
  /\ [][ (step # "ITINERARY" /\ step' = "ITINERARY")
         => LET id == Val(itineraryId')
                days == Val(itinerary').days
            IN /\ imageTasks' \ imageTasks =
                    { [id |-> id, dayNumber |-> d] :
                        d \in { n \in DayNumbers(days) :
                                  ~HasImage(dayImages', n) } }
               /\ imageTasks \subseteq imageTasks' ]_vars
  /\ [][ imageTasks' \ imageTasks # {}
         => step # "ITINERARY" /\ step' = "ITINERARY" ]_vars

\* a resumed three-day unlocked resource with a saved image for day 1 is shown
\* while exactly the tasks of days 2 and 3 are pending
C26_Witness ==
  /\ step = "ITINERARY"
  /\ isUnlocked
  /\ itineraryId = Some("1")
  /\ dayImages = { [dayNumber |-> 1, image |-> Img("1", 1)] }
  /\ imageTasks = { [id |-> "1", dayNumber |-> 2],
                    [id |-> "1", dayNumber |-> 3] }

\* C27: the merges of the image tasks of one session commute and are
\* idempotent per key: for any two pending tasks of one session either order
\* of completion gives the same cache, applying a completion twice gives what
\* applying it once gives, and a completion changes only its own day's entry.
C27_ImageMergesCommute ==
  /\ [](\A t1 \in imageTasks : \A t2 \in imageTasks :
          (t1.id = t2.id /\ t1 # t2)
          => LET i1 == Img(t1.id, t1.dayNumber)
                 i2 == Img(t2.id, t2.dayNumber)
             IN putImage(putImage(dayImages, t1.dayNumber, i1),
                         t2.dayNumber, i2)
                = putImage(putImage(dayImages, t2.dayNumber, i2),
                           t1.dayNumber, i1))
  /\ [](\A t \in imageTasks :
          LET i == Img(t.id, t.dayNumber)
          IN putImage(putImage(dayImages, t.dayNumber, i), t.dayNumber, i)
             = putImage(dayImages, t.dayNumber, i))
  /\ [][ \A t \in imageTasks :
           t \notin imageTasks'
           => \A e \in dayImages \cup dayImages' :
                e.dayNumber # t.dayNumber
                => (e \in dayImages <=> e \in dayImages') ]_vars

\* both image tasks of the first session have completed with an image
C27_Witness ==
  /\ itineraryId = Some("1")
  /\ imageTasks = {}
  /\ dayImages = { [dayNumber |-> 1, image |-> Img("1", 1)],
                   [dayNumber |-> 2, image |-> Img("1", 2)] }

\* C28: an image task that ends without an image leaves the cache, the other
\* tasks and the step as they are, and from then on (no entry and no pending
\* task of the current session for that day) the day gets no entry and no new
\* task for as long as the session is the current one.
C28_FailedImageStaysMissing ==
  /\ [][ \A t \in imageTasks : \A saved \in BOOLEAN :
           imageTaskResolve(t, Null, saved)
           => /\ dayImages' = dayImages
              /\ imageTasks' = imageTasks \ {t}
              /\ step' = step ]_vars
  /\ [][ (itinerary # Null /\ itineraryId # Null
          /\ itineraryId' = itineraryId)
         => \A d \in DayNumbers(Val(itinerary).days) :
              LET task == [id |-> Val(itineraryId), dayNumber |-> d]
              IN (~HasImage(dayImages, d) /\ task \notin imageTasks)
                 => (~HasImage(dayImages', d) /\ task \notin imageTasks')
     ]_vars

(* ----------------- properties of concurrent slot operations ------------ *)
\* the activities getAlternativeActivity can hand to confirmRegeneration
NewActivities ==
  { Val(getAlternativeActivity(resp)) :
      resp \in { r \in AlternativeResponses :
                   getAlternativeActivity(r) # Null } }

\* C29: a regeneration that completes with an activity writes it at the
\* numeric index it was requested with in the list as it is then: when that
\* index is in range the activity now at the index is replaced, whether or not
\* it is the activity the call was requested for (one that a deletion at a
\* lower index has moved down stays where it is now), and when the index is
\* out of range the list is unchanged.
C29_CompletionWritesAtOriginalIndex ==
  [][ \A c \in BagToSet(regenCalls) :
        (Completes(c) /\ lastOutcome' # "no_result" /\ itinerary # Null)
        => \A i \in 1..Len(DaysOf(itinerary)) :
             DaysOf(itinerary)[i].dayNumber = c.dayNum
             => LET before == DaysOf(itinerary)[i][c.period]
                    after == DaysOf(itinerary')[i][c.period]
                IN IF c.idx < Len(before)
                   THEN /\ SameExceptAt(before, after, c.idx)
                        /\ after[c.idx + 1] \in NewActivities
                        /\ \A j \in 1..Len(before) :
                             (j # c.idx + 1 /\ before[j] = c.activity)
                             => after[j] = c.activity
                   ELSE after = before ]_vars

\* the only regeneration issued was requested for c2 at index 1; c1 was
\* deleted while it was in flight, and its completion replaced c3, which had
\* moved to index 1, and left c2
C29_Witness ==
  /\ step = "ITINERARY"
  /\ itinerary # Null
  /\ regenCount = 1
  /\ regenCalls = EmptyBag
  /\ lastOutcome = "replaced_other"
  /\ DaysOf(itinerary)[1].morning = <<Act("c2"), Act("alt")>>

\* C30: regenerations on different slot keys can be in flight together, and
\* for any two of them completing one after the other on the itinerary as it
\* is (no deletion in between) both orders of completion give the same
\* itinerary.
C30_DifferentSlotsCommute ==
  \A c1 \in BagToSet(regenCalls) : \A c2 \in BagToSet(regenCalls) :
    c1.id # c2.id
    => \A n1 \in NewActivities : \A n2 \in NewActivities :
         ReplaceActivity(
           ReplaceActivity(itinerary, c1.dayNum, c1.period, c1.idx, n1),
           c2.dayNum, c2.period, c2.idx, n2)
         = ReplaceActivity(
             ReplaceActivity(itinerary, c2.dayNum, c2.period, c2.idx, n2),
             c1.dayNum, c1.period, c1.idx, n1)

\* regenerations of index 0 and of index 1 of the same morning list are in
\* flight together
C30_Witness ==
  /\ step = "ITINERARY"
  /\ itinerary # Null
  /\ \E c1 \in BagToSet(regenCalls) : \E c2 \in BagToSet(regenCalls) :
       /\ c1.dayNum = c2.dayNum
       /\ c1.period = "morning" /\ c2.period = "morning"
       /\ c1.idx = 0 /\ c2.idx = 1
  /\ Len(DaysOf(itinerary)[1].morning) = 3

(* ------------- properties of the animation lock and of gestures -------- *)
\* C31: while the animation lock is held, no step commits an answer or changes
\* the active question index or the step; the step that releases the lock
\* advances the index by exactly one, or enters LOADING when the committed
\* question was the last.
C31_LockBlocksInput ==
  /\ [][ (isAnimatingOut # Null /\ isAnimatingOut' # Null)
         => /\ prefs'.followUpAnswers = prefs.followUpAnswers
            /\ committed' = committed
            /\ UNCHANGED <<currentQuestionIndex, step, isAnimatingOut>> ]_vars
  /\ [][ (isAnimatingOut # Null /\ isAnimatingOut' = Null)
         => /\ prefs'.followUpAnswers = prefs.followUpAnswers
            /\ committed' = committed
            /\ IF currentQuestionIndex + 1 < Len(smartQuestions)
               THEN /\ currentQuestionIndex' = currentQuestionIndex + 1
                    /\ step' = step
               ELSE /\ step' = "LOADING"
                    /\ currentQuestionIndex' = currentQuestionIndex ]_vars

\* the lock of the first of two questions has expired and the second is active
C31_Witness ==
  /\ step = "QUESTIONS"
  /\ smartQuestions = <<"q1", "q2">>
  /\ committed = <<"q1">>
  /\ isAnimatingOut = Null
  /\ swipeTimer = Null
  /\ currentQuestionIndex = 1

\* C32: a release with -threshold <= delta <= threshold resets the delta to
\* zero and ends the gesture, and leaves the follow-up answers, the active
\* question index, the animation lock and the step unchanged.
C32_CancelledGesture ==
  [][ (dragStart # Null /\ dragStart' = Null
       /\ -threshold <= dragDelta.x /\ dragDelta.x <= threshold)
      => /\ dragDelta' = [x |-> 0]
         /\ prefs'.followUpAnswers = prefs.followUpAnswers
         /\ UNCHANGED <<currentQuestionIndex, isAnimatingOut, step>> ]_vars

\* a drag released at a delta of exactly minus the threshold was cancelled
C32_Witness ==
  /\ lastRelease = Some([x |-> -100])
  /\ dragStart = Null
  /\ dragDelta = [x |-> 0]
  /\ isAnimatingOut = Null
  /\ committed = <<>>
  /\ step = "QUESTIONS"

\* C33: whenever the step is QUESTIONS the active index i satisfies
\* 0 <= i < number of received questions, and while the step stays QUESTIONS
\* the index never decreases.
C33_IndexInRange ==
  /\ [](step = "QUESTIONS"
        => /\ 0 <= currentQuestionIndex
           /\ currentQuestionIndex < Len(smartQuestions))
  /\ [][ (step = "QUESTIONS" /\ step' = "QUESTIONS")
         => currentQuestionIndex' >= currentQuestionIndex ]_vars

\* the second traversal of a session stands at its last question
C33_Witness ==
  /\ step = "QUESTIONS"
  /\ genCount = 1
  /\ smartQuestions = <<"q3", "q1">>
  /\ currentQuestionIndex = 1
  /\ committed = <<"q3">>

\* C34: a release commits an answer only for a gesture that was started after
\* the previous animation lock ended: no answer was committed between the
\* start of the gesture and its release.
C34_DragCommitsNeedFreshGesture ==
  [][ (dragStart # Null /\ dragStart' = Null /\ committed' # committed)
      => Val(dragStart).answered = Len(committed) ]_vars

(* --------------- properties of the regeneration bookkeeping ------------ *)
\* C35: in every reachable state a slot key is in the in-flight set if and
\* only if at least one regeneration request for that key has been accepted
\* and has not yet completed.
C35_InFlightSetMatchesCalls ==
  [](regeneratingIds = { c.id : c \in BagToSet(regenCalls) })

\* C36: the completion of a regeneration for slot A leaves the pending target
\* of a different slot B alone: when the dialog for B is open and unconfirmed
\* at the completion, its target is still set and the dialog still open after
\* it, so that confirming starts the regeneration for B.
C36_CompletionKeepsPendingTarget ==
  [][ \A c \in BagToSet(regenCalls) :
        ( /\ Completes(c)
          /\ regenModalOpen
          /\ regenTarget # Null
          /\ SlotId(Val(regenTarget).dayNum, Val(regenTarget).period,
                    Val(regenTarget).idx) # c.id )
        => /\ regenTarget' = regenTarget
           /\ regenModalOpen' ]_vars

C37_ImagesPersistedPerDay ==
  /\ [][ \A t \in imageTasks : \A img \in ImageResponses(t) :
           (img # Null /\ imageTaskResolve(t, img, TRUE))
           => /\ db[t.id] # Null
              /\ [dayNumber |-> t.dayNumber, image |-> Val(img)]
                   \in Val(db'[t.id]).images
              /\ \A e \in Val(db[t.id]).images :
                   e.dayNumber # t.dayNumber => e \in Val(db'[t.id]).images
              /\ \A id \in Uuids \ {t.id} : db'[id] = db[id] ]_vars
  /\ [][ \A t \in imageTasks' \ imageTasks :
           /\ db[t.id] # Null
           /\ ~HasImage(Val(db[t.id]).images, t.dayNumber) ]_vars

\* a resumed resource holds the image another client saved for day 1 and the
\* image this page's task saved for day 2, and the task of day 3 is pending
C37_Witness ==
  /\ step = "ITINERARY"
  /\ itineraryId = Some("1")
  /\ db["1"] # Null
  /\ Val(db["1"]).images = { [dayNumber |-> 1, image |-> Img("1", 1)],
                             [dayNumber |-> 2, image |-> Img("1", 2)] }
  /\ imageTasks = { [id |-> "1", dayNumber |-> 3] }

(* ------------------ properties of the displayed session ---------------- *)
\* C38: whenever the step is ITINERARY the client holds a non-null itinerary
\* and a non-null itinerary id; the step that enters ITINERARY takes the
\* itinerary, the id, the unlocked flag and totalDays from one response (of the
\* load or of the generation), and while the step stays ITINERARY the id, the
\* flag and totalDays do not change and the itinerary stays non-null.
C38_ItineraryStateFromResponse ==
  /\ [](step = "ITINERARY" => itinerary # Null /\ itineraryId # Null)
  /\ [][ (step # "ITINERARY" /\ step' = "ITINERARY")
         => \/ /\ getCall # Null
               /\ LET data == getItineraryRoute(db, Val(getCall).id)
                  IN /\ data.kind = "ok"
                     /\ itinerary' = Some(data.plan)
                     /\ itineraryId' = Some(data.id)
                     /\ isUnlocked' = data.unlocked
                     /\ totalDays' = data.totalDays
            \/ /\ genCall # Null
               /\ \E resp \in GenerateTripResponses(genCount) :
                    /\ resp.kind = "ok"
                    /\ itinerary' = Some(resp.plan)
                    /\ itineraryId' = Some(resp.id)
                    /\ isUnlocked' = resp.unlocked
                    /\ totalDays' = resp.totalDays ]_vars
  /\ [][ (step = "ITINERARY" /\ step' = "ITINERARY")
         => /\ UNCHANGED <<itineraryId, isUnlocked, totalDays>>
            /\ itinerary' # Null ]_vars

\* the page shows the three-day resource it reloaded after a verified payment
C38_Witness ==
  /\ step = "ITINERARY"
  /\ itineraryId = Some("1")
  /\ itinerary = Some(PlanA)
  /\ isUnlocked
  /\ totalDays = 3
  /\ params.success = Null
  /\ "1" \in paidVerified

(* ------------------------ properties of Loading ------------------------ *)
\* C39: Loading is never terminal: when every external call eventually
\* returns, every execution that enters LOADING (from Specifics, from
\* Questions or from a normal resume) eventually reaches QUESTIONS, ITINERARY
\* or START.
C39_LoadingIsLeft ==
  (step = "LOADING") ~> (step \in {"QUESTIONS", "ITINERARY", "START"})

\* the generation started by the last question card failed and the page is
\* back at Start
C39_Witness ==
  /\ step = "START"
  /\ genCount = 1
  /\ genCall = Null
  /\ committed = <<"q1", "q2">>
  /\ itinerary = Null


=============================================================================
